---- MODULE Spec2Model ----
(***************************************************************************)
(* Model of the form lifecycle (draft / preview / publish), the ownership   *)
(* checks of the HTTP API, overlapping requests on a form, form responses, *)
(* the public form route, the student identifier lookup, the student and   *)
(* CSV imports and the form builder's sections and question numbering of   *)
(* the iSMS application (server/routes.ts, server/storage.ts,              *)
(* shared/schema.ts, client/src/pages/FormBuilder.tsx,                     *)
(* client/src/components/FormBuilder.tsx, client/src/components/           *)
(* CSVUploader.tsx, client/src/App.tsx).                                   *)
(*                                                                         *)
(* Conventions.  A jsonb column or a request-body key holds a tagged value: *)
(* Undef (key absent, JS undefined), Null (SQL/JSON null) or Arr(s) (a JSON *)
(* array).  Strings that the code trims or lower-cases are sequences of    *)
(* one-character strings, so that the conversion is computed.  A nullable   *)
(* varchar that is null is the empty sequence; a nullable timestamp that   *)
(* is null is 0 (the clock starts at 1).  The columns id, createdAt and    *)
(* updatedAt and the description are not tracked: no handler reads them.   *)
(***************************************************************************)
EXTENDS Integers, Sequences, FiniteSets, TLC

VARIABLES
    forms,        \* forms table: form id -> row, or NoRow
    events,       \* events table: event id -> row, or NoRow
    attendees,    \* event_attendees table: set of rows
    now,          \* the server clock read by new Date()
    captured,     \* history: form id -> the working snapshot that the last
                  \* successful prepare-preview of the form copied, or Undef
    students,     \* studentsDB table: set of stored student_BC values
    lookup,       \* last response of /api/public/students/lookup-bc
    respondent,   \* state of the BC input of a public form
    questions,    \* builder state: the question list
    sections,     \* builder state: the section list
    formType,     \* builder state: the watched formType field
    nextId,       \* builder: the next value of Date.now()
    loading,      \* builder: edit mode, persisted form not loaded yet
    studentUpload, \* student import dialog: parsedData and validationErrors
    importReport,  \* student import: what the last import told its caller
    csvUpload,     \* CSV import dialog: parsedData and validationErrors
    csvReport,     \* CSV import: what the last upload told its caller
    inflight,      \* concurrent requests on a form: the row they started
                   \* from and, for each call, its position and what it read
    responses      \* form_responses table: set of rows

serverVars  == <<forms, events, attendees, now, captured>>
lookupVars  == <<students, lookup, respondent>>
builderVars == <<questions, sections, formType, nextId, loading>>
importVars  == <<studentUpload, importReport, csvUpload, csvReport>>
requestVars == <<inflight, responses>>
vars == <<forms, events, attendees, now, captured, students, lookup, respondent,
          questions, sections, formType, nextId, loading,
          studentUpload, importReport, csvUpload, csvReport, inflight, responses>>

(***************************************************************************)
(* JSON values                                                             *)
(***************************************************************************)
Undef == [t |-> "undefined"]
Null == [t |-> "null"]
Arr(s) == [t |-> "array", v |-> s]

\* JS truthiness of a jsonb value: every array, also the empty one, is truthy
Truthy(x) == x.t = "array"

\* JS a || b
OrElse(a, b) == IF Truthy(a) THEN a ELSE b

NoRow == [t |-> "none"]

Users == {"alice", "bob"}
\* the users that create forms and events in the explored behaviours
Creators == {"alice"}
FormIds == {"f1"}
EventIds == {"e1"}

Str(s) == [t |-> "string", v |-> s]

(***************************************************************************)
(* Bounds of the explored behaviours                                       *)
(***************************************************************************)
MaxClock == 2        \* the clock runs 1..MaxClock
MaxQuestions == 1    \* longest question list a bulk import may produce
MaxAttendees == 1    \* rows of event_attendees
MaxResponses == 2    \* rows of form_responses

\* Slugs: sequences of characters
ApiSlug == <<"a", "p", "i">>
ApiUpperSlug == <<"A", "p", "i">>
SurveySlug == <<"s", "v">>

\* Snapshot contents used in requests
QContents == {Arr(<<>>), Arr(<<"q1">>)}
SContents == {Arr(<<"s0">>)}

(***************************************************************************)
(* Request bodies of POST /api/forms and PUT /api/forms/:id.  invalid      *)
(* stands for a body that insertFormSchema rejects (a ZodError).           *)
(***************************************************************************)
EmptyBody ==
    [title |-> Undef, formUrl |-> Undef, status |-> Undef, settings |-> Undef,
     questions |-> Undef, sections |-> Undef,
     previewQuestions |-> Undef, previewSections |-> Undef,
     publishedQuestions |-> Undef, publishedSections |-> Undef,
     invalid |-> FALSE]

\* POST /api/forms bodies: with and without a status, a title, working content
CreateBodiesFor(urls) ==
    {[EmptyBody EXCEPT !.title = Str("t"), !.formUrl = Str(u), !.status = st,
                       !.questions = q] :
        u \in urls, st \in {Undef, Str("active")}, q \in {Undef, Arr(<<>>)}}
    \cup {[EmptyBody EXCEPT !.formUrl = Str(u)] : u \in urls}

CreateBodies == CreateBodiesFor({SurveySlug})

SaveBodies ==
    {[EmptyBody EXCEPT !.questions = q, !.sections = s] :
        q \in {Undef} \cup QContents, s \in {Undef} \cup SContents}
    \cup {[EmptyBody EXCEPT !.previewQuestions = q] : q \in QContents}
    \cup {[EmptyBody EXCEPT !.previewSections = s] : s \in SContents}
    \cup {[EmptyBody EXCEPT !.publishedQuestions = q] : q \in QContents}
    \cup {[EmptyBody EXCEPT !.publishedSections = s] : s \in SContents}
    \cup {[EmptyBody EXCEPT !.status = Str("draft")]}
    \cup {[EmptyBody EXCEPT !.invalid = TRUE]}

PublishBodies ==
    {[EmptyBody EXCEPT !.status = Str("active"), !.questions = q] :
        q \in {Undef, Arr(<<"q1">>)}}
    \cup {[EmptyBody EXCEPT !.status = Str("active"),
                            !.publishedQuestions = Arr(<<"q1">>)]}
    \cup {[EmptyBody EXCEPT !.status = Str("active"), !.invalid = TRUE]}

UpdateBodies == SaveBodies \cup PublishBodies

\* bodies of POST /api/forms/:id/questions/bulk and PUT /api/forms/:id/icon
ImportBodies == {Undef, Arr(<<"q1">>)}
IconPaths == {<<>>, <<"icon">>}

\* the requests of SpecPublic
PublicCreateBodies == CreateBodiesFor({ApiSlug, ApiUpperSlug, SurveySlug})
PublicUpdateBodies ==
    {[EmptyBody EXCEPT !.questions = q] : q \in QContents}
    \cup {[EmptyBody EXCEPT !.sections = Arr(<<"s0">>)]}
    \cup {[EmptyBody EXCEPT !.status = Str("active")]}

\* the requests of SpecAccess
AccessCreateBodies == {[EmptyBody EXCEPT !.title = Str("t"), !.formUrl = Str(SurveySlug)]}
AccessUpdateBodies ==
    {[EmptyBody EXCEPT !.questions = Arr(<<"q1">>), !.sections = Arr(<<"s0">>)],
     [EmptyBody EXCEPT !.status = Str("active")]}
EventTitles == {Undef, Str("t1"), Str("t2")}
AttendeeBodies == {Undef, Str("alice"), Str("bob")}

(***************************************************************************)
(* storage.ts / schema.ts                                                  *)
(***************************************************************************)
\* a column of an update set: undefined keys are not written
SetCol(old, new) == IF new = Undef THEN old ELSE new

\* insert into forms: absent columns take the schema's defaults
NewFormRow(u, b) ==
    [createdBy |-> u,
     name |-> b.title.v,
     formUrl |-> IF b.formUrl = Undef THEN <<>> ELSE b.formUrl.v,
     formType |-> "survey",
     status |-> IF b.status = Undef THEN "draft" ELSE b.status.v,
     settings |-> SetCol(Null, b.settings),
     questions |-> SetCol(Null, b.questions),
     sections |-> SetCol(Null, b.sections),
     previewQuestions |-> SetCol(Null, b.previewQuestions),
     previewSections |-> SetCol(Null, b.previewSections),
     publishedQuestions |-> SetCol(Null, b.publishedQuestions),
     publishedSections |-> SetCol(Null, b.publishedSections),
     lastSavedAt |-> 0,
     lastPublishedAt |-> 0]

\* the keys of the body that PUT /api/forms/:id passes on as mappedData
\* ({ title, questions, sections, status, ...rest } with name: title)
ApplyRest(row, b) ==
    [row EXCEPT
        !.name = IF b.title = Undef THEN @ ELSE b.title.v,
        !.formUrl = IF b.formUrl = Undef THEN @ ELSE b.formUrl.v,
        !.settings = SetCol(@, b.settings),
        !.previewQuestions = SetCol(@, b.previewQuestions),
        !.previewSections = SetCol(@, b.previewSections),
        !.publishedQuestions = SetCol(@, b.publishedQuestions),
        !.publishedSections = SetCol(@, b.publishedSections)]

\* the publish branch of PUT /api/forms/:id
\* a publish that copies the working content whatever the preview holds
PublishWorking(row, b, t) ==
    [ApplyRest(row, b) EXCEPT !.status = "active",
                              !.publishedQuestions = row.questions,
                              !.publishedSections = row.sections,
                              !.lastPublishedAt = t]
PublishUpdates(row, b, t) ==
    [ApplyRest(row, b) EXCEPT
        !.status = "active",
        !.publishedQuestions = OrElse(row.previewQuestions, row.questions),
        !.publishedSections = OrElse(row.previewSections, row.sections),
        !.lastPublishedAt = t]

\* a save that also writes the status of its body
SaveWithStatus(row, b, t) ==
    [ApplyRest(row, b) EXCEPT
        !.status = IF b.status = Undef THEN @ ELSE b.status.v,
        !.questions = OrElse(b.questions, row.questions),
        !.sections = OrElse(b.sections, row.sections),
        !.lastSavedAt = t]
\* the save branch of PUT /api/forms/:id
SaveUpdates(row, b, t) ==
    [ApplyRest(row, b) EXCEPT
        !.questions = OrElse(b.questions, row.questions),
        !.sections = OrElse(b.sections, row.sections),
        !.lastSavedAt = t]

\* a prepare-preview that copies the working content into the published
\* snapshot as well
PreviewAndPublished(row, t) ==
    [row EXCEPT
        !.previewQuestions = row.questions,
        !.previewSections = row.sections,
        !.publishedQuestions = row.questions,
        !.publishedSections = row.sections,
        !.lastSavedAt = t]
\* the updates of POST /api/forms/:id/prepare-preview
PreviewUpdates(row, t) ==
    [row EXCEPT
        !.previewQuestions = row.questions,
        !.previewSections = row.sections,
        !.lastSavedAt = t]

\* storage.bulkImportQuestions: the merged question list
MergedQuestions(row, qs) ==
    Arr((IF Truthy(row.questions) THEN row.questions.v ELSE <<>>) \o qs)

\* the settings written by PUT /api/forms/:id/icon
IconSettings(row, path) ==
    IF row.settings = Null
    THEN [t |-> "object", iconUrl |-> path, selectedRespondents |-> <<>>]
    ELSE [row.settings EXCEPT !.iconUrl = path]

\* ownership test of the handlers
\* an ownership test every user passes
IsAnyUser(row, u) == TRUE
IsOwner(row, u) == row.createdBy = u

(***************************************************************************)
(* Handlers of server/routes.ts (forms).  A handler is an operator giving  *)
(* the HTTP status it answers with and the tables it leaves; the action of *)
(* the same name applies it.  A rejected request changes no variable.      *)
(***************************************************************************)
Reply(c, f) == [code |-> c, forms |-> f]

\* POST /api/forms
CreateFormResult(u, id, b) ==
    IF b.invalid \/ b.title = Undef
    THEN Reply(400, forms)
    ELSE Reply(200, [forms EXCEPT ![id] = NewFormRow(u, b)])

CreateForm(u, id, b) ==
    /\ forms[id] = NoRow
    /\ forms' = CreateFormResult(u, id, b).forms
    /\ captured' = IF CreateFormResult(u, id, b).code = 200
                   THEN [captured EXCEPT ![id] = Undef] ELSE captured
    /\ UNCHANGED <<events, attendees, now, lookupVars, importVars, requestVars, builderVars>>

\* PUT /api/forms/:id (save and publish)
PutFormResult(u, id, b) ==
    IF forms[id] = NoRow THEN Reply(404, forms)
    ELSE IF ~IsOwner(forms[id], u) THEN Reply(403, forms)
    ELSE IF b.invalid THEN Reply(400, forms)
    ELSE IF b.status = Str("active")
    THEN Reply(200, [forms EXCEPT ![id] = PublishUpdates(@, b, now)])
    ELSE Reply(200, [forms EXCEPT ![id] = SaveUpdates(@, b, now)])

PutForm(u, id, b) ==
    /\ forms' = PutFormResult(u, id, b).forms
    /\ UNCHANGED <<events, attendees, now, captured, lookupVars, importVars, requestVars, builderVars>>

\* POST /api/forms/:id/prepare-preview
PreparePreviewResult(u, id) ==
    IF forms[id] = NoRow THEN Reply(404, forms)
    ELSE IF ~IsOwner(forms[id], u) THEN Reply(403, forms)
    ELSE Reply(200, [forms EXCEPT ![id] = PreviewUpdates(@, now)])

PreparePreview(u, id) ==
    /\ forms' = PreparePreviewResult(u, id).forms
    /\ captured' = IF PreparePreviewResult(u, id).code = 200
                   THEN [captured EXCEPT ![id] =
                           [questions |-> forms[id].questions,
                            sections |-> forms[id].sections]]
                   ELSE captured
    /\ UNCHANGED <<events, attendees, now, lookupVars, importVars, requestVars, builderVars>>

\* DELETE /api/forms/:id.  form_responses.form_id references forms.id with
\* ON DELETE no action: the DELETE of a form that has responses fails, and
\* the handler answers 500
DeleteFormResult(u, id) ==
    IF forms[id] = NoRow THEN Reply(404, forms)
    ELSE IF ~IsOwner(forms[id], u) THEN Reply(403, forms)
    ELSE IF \E r \in responses : r.formId = id THEN Reply(500, forms)
    ELSE Reply(200, [forms EXCEPT ![id] = NoRow])

DeleteForm(u, id) ==
    /\ forms' = DeleteFormResult(u, id).forms
    /\ captured' = IF DeleteFormResult(u, id).code = 200
                   THEN [captured EXCEPT ![id] = Undef] ELSE captured
    /\ UNCHANGED <<events, attendees, now, lookupVars, importVars, requestVars, builderVars>>

\* POST /api/forms/:id/responses, open to every caller; answers = Undef: the
\* body has no responses.  The INSERT of a response for no stored form fails
SubmitResponse(id, answers) ==
    /\ Cardinality(responses) < MaxResponses
    /\ responses' =
           IF answers = Undef \/ forms[id] = NoRow THEN responses
           ELSE responses \cup {[id |-> Cardinality(responses) + 1, formId |-> id,
                                 responses |-> answers]}
    /\ UNCHANGED <<serverVars, lookupVars, importVars, builderVars, inflight>>

\* POST /api/forms/:id/questions/bulk; qs = Undef: the body's questions is no array
BulkImportQuestionsResult(u, id, qs) ==
    IF forms[id] = NoRow THEN Reply(404, forms)
    ELSE IF ~IsOwner(forms[id], u) THEN Reply(403, forms)
    ELSE IF qs = Undef THEN Reply(400, forms)
    ELSE Reply(200, [forms EXCEPT ![id].questions = MergedQuestions(forms[id], qs.v)])

BulkImportQuestions(u, id, qs) ==
    /\ forms[id] # NoRow /\ qs # Undef
          => Len(MergedQuestions(forms[id], qs.v).v) <= MaxQuestions
    /\ forms' = BulkImportQuestionsResult(u, id, qs).forms
    /\ UNCHANGED <<events, attendees, now, captured, lookupVars, importVars, requestVars, builderVars>>

\* PUT /api/forms/:id/icon; path = <<>>: the body has no iconURL
UpdateIconResult(u, id, path) ==
    IF path = <<>> THEN Reply(400, forms)
    ELSE IF forms[id] = NoRow THEN Reply(404, forms)
    ELSE IF ~IsOwner(forms[id], u) THEN Reply(403, forms)
    ELSE Reply(200, [forms EXCEPT ![id].settings = IconSettings(forms[id], path)])

UpdateIcon(u, id, path) ==
    /\ forms' = UpdateIconResult(u, id, path).forms
    /\ UNCHANGED <<events, attendees, now, captured, lookupVars, importVars, requestVars, builderVars>>

\* the passage of time between two requests
Tick ==
    /\ now < MaxClock
    /\ now' = now + 1
    /\ UNCHANGED <<forms, events, attendees, captured, lookupVars, importVars, requestVars, builderVars>>

(***************************************************************************)
(* Requests on one form that overlap.  A handler awaits the store twice:   *)
(* it reads the row (storage.getFormById), builds its updates from what it *)
(* read and the clock, then writes them (storage.updateForm, one UPDATE    *)
(* that sets the columns of the updates and no other).  Another request's  *)
(* read or write may come between the two.  A call is a record of its kind *)
(* ("put", "preview", "import") and its body; the questions of an import   *)
(* are the questions of its body.                                          *)
(***************************************************************************)
\* the row a call by the owner leaves when it runs alone on row
Mutation(row, call, t) ==
    CASE call.kind = "put" ->
             IF call.body.invalid THEN row
             ELSE IF call.body.status = Str("active")
             THEN PublishUpdates(row, call.body, t)
             ELSE SaveUpdates(row, call.body, t)
      [] call.kind = "preview" -> PreviewUpdates(row, t)
      [] call.kind = "import" ->
             [row EXCEPT !.questions = MergedQuestions(row, call.body.questions.v)]

\* the columns that the UPDATE of a call sets
WrittenColumns(call) ==
    LET rest == {c \in {"formUrl", "settings", "previewQuestions", "previewSections",
                        "publishedQuestions", "publishedSections"} :
                    call.body[c] # Undef}
                \cup (IF call.body.title # Undef THEN {"name"} ELSE {})
    IN  CASE call.kind = "put" ->
                 IF call.body.invalid THEN {}
                 ELSE IF call.body.status = Str("active")
                 THEN rest \cup {"status", "publishedQuestions", "publishedSections",
                                 "lastPublishedAt"}
                 ELSE rest \cup {"questions", "sections", "lastSavedAt"}
          [] call.kind = "preview" -> {"previewQuestions", "previewSections", "lastSavedAt"}
          [] call.kind = "import" -> {"questions"}

\* the first await of call i: the handler reads the row of the form
ReadForm(id, i) ==
    /\ inflight # Null
    /\ inflight.calls[i].phase = "new"
    /\ inflight' = [inflight EXCEPT !.calls[i].phase = "read",
                                    !.calls[i].existing = forms[id]]
    /\ UNCHANGED <<serverVars, lookupVars, builderVars, importVars, responses>>

\* the second await of call i: the UPDATE of the columns built from what it read
WriteForm(id, i) ==
    /\ inflight # Null
    /\ inflight.calls[i].phase = "read"
    /\ forms' = [forms EXCEPT ![id] =
                    [c \in DOMAIN forms[id] |->
                        IF c \in WrittenColumns(inflight.calls[i].call)
                        THEN Mutation(inflight.calls[i].existing,
                                      inflight.calls[i].call, now)[c]
                        ELSE forms[id][c]]]
    /\ inflight' = [inflight EXCEPT !.calls[i].phase = "done"]
    /\ UNCHANGED <<events, attendees, now, captured, lookupVars, builderVars, importVars,
                   responses>>

\* the calls that overlap in the explored behaviours
ConcurrentCalls ==
    {[kind |-> "put", body |-> [EmptyBody EXCEPT !.questions = Arr(<<"q1">>)]],
     [kind |-> "put", body |-> [EmptyBody EXCEPT !.sections = Arr(<<"s0">>)]],
     [kind |-> "put", body |-> [EmptyBody EXCEPT !.status = Str("active")]],
     [kind |-> "put", body |-> [EmptyBody EXCEPT !.invalid = TRUE]],
     [kind |-> "preview", body |-> EmptyBody],
     [kind |-> "import", body |-> [EmptyBody EXCEPT !.questions = Arr(<<"q1">>)]],
     [kind |-> "import", body |-> [EmptyBody EXCEPT !.questions = Arr(<<"q2">>)]]}

(***************************************************************************)
(* Handlers of server/routes.ts (events)                                   *)
(***************************************************************************)
EventReply(c, e, a) == [code |-> c, events |-> e, attendees |-> a]

\* POST /api/events; title = Undef: insertEventSchema rejects the body
CreateEventResult(u, id, title) ==
    IF title = Undef THEN EventReply(400, events, attendees)
    ELSE EventReply(200, [events EXCEPT ![id] = [createdBy |-> u, title |-> title.v]],
                    attendees)

CreateEvent(u, id, title) ==
    /\ events[id] = NoRow
    /\ events' = CreateEventResult(u, id, title).events
    /\ UNCHANGED <<forms, attendees, now, captured, lookupVars, importVars, requestVars, builderVars>>

\* PUT /api/events/:id
UpdateEventResult(u, id, title) ==
    IF events[id] = NoRow THEN EventReply(404, events, attendees)
    ELSE IF ~IsOwner(events[id], u) THEN EventReply(403, events, attendees)
    ELSE EventReply(200,
            [events EXCEPT ![id].title = IF title = Undef THEN @ ELSE title.v],
            attendees)

UpdateEvent(u, id, title) ==
    /\ events' = UpdateEventResult(u, id, title).events
    /\ UNCHANGED <<forms, attendees, now, captured, lookupVars, importVars, requestVars, builderVars>>

\* storage.deleteEvent: the attendees of the event go first, then the event
AttendeesWithout(id) == SelectSeq(attendees, LAMBDA a : a.eventId # id)

\* DELETE /api/events/:id
DeleteEventResult(u, id) ==
    IF events[id] = NoRow THEN EventReply(404, events, attendees)
    ELSE IF ~IsOwner(events[id], u) THEN EventReply(403, events, attendees)
    ELSE EventReply(200, [events EXCEPT ![id] = NoRow], AttendeesWithout(id))

DeleteEvent(u, id) ==
    /\ events' = DeleteEventResult(u, id).events
    /\ attendees' = DeleteEventResult(u, id).attendees
    /\ UNCHANGED <<forms, now, captured, lookupVars, importVars, requestVars, builderVars>>

\* POST /api/events/:id/attendees; who = Undef: the body has no attendeeId
AddAttendeeResult(u, id, who) ==
    IF events[id] = NoRow THEN EventReply(404, events, attendees)
    ELSE IF ~IsOwner(events[id], u) THEN EventReply(403, events, attendees)
    ELSE IF who = Undef THEN EventReply(400, events, attendees)
    ELSE EventReply(200, events,
            Append(attendees, [eventId |-> id, attendeeId |-> who.v]))

AddAttendee(u, id, who) ==
    /\ Len(AddAttendeeResult(u, id, who).attendees) <= MaxAttendees
    /\ attendees' = AddAttendeeResult(u, id, who).attendees
    /\ UNCHANGED <<forms, events, now, captured, lookupVars, importVars, requestVars, builderVars>>

(***************************************************************************)
(* The public form: GET /api/public/forms/:url and the client route /:url  *)
(***************************************************************************)
\* storage.getFormByUrl: the row whose form_url is url (form_url is unique)
GetFormByUrl(url) ==
    IF \E id \in FormIds : forms[id] # NoRow /\ forms[id].formUrl = url
    THEN forms[CHOOSE id \in FormIds : forms[id] # NoRow /\ forms[id].formUrl = url]
    ELSE NoRow

\* x ? x : [] of the handler: the list a jsonb value is sent as
ListOf(x) == IF Truthy(x) THEN x.v ELSE <<>>

\* GET /api/public/forms/:url
PublicFormResponse(url) ==
    LET form == GetFormByUrl(url) IN
    IF form = NoRow
    THEN [code |-> 404, questions |-> <<>>, sections |-> <<>>]
    ELSE [code |-> 200,
          questions |-> ListOf(OrElse(form.publishedQuestions, form.questions)),
          sections |-> ListOf(OrElse(form.publishedSections, form.sections))]

UpperCase == <<"A", "B", "C", "D", "E", "F", "G", "H", "I", "J", "K", "L", "M",
               "N", "O", "P", "Q", "R", "S", "T", "U", "V", "W", "X", "Y", "Z">>
LowerCase == <<"a", "b", "c", "d", "e", "f", "g", "h", "i", "j", "k", "l", "m",
               "n", "o", "p", "q", "r", "s", "t", "u", "v", "w", "x", "y", "z">>

\* String.prototype.toLowerCase
ToLowerCase(str) ==
    [i \in 1..Len(str) |->
        IF \E k \in 1..Len(UpperCase) : UpperCase[k] = str[i]
        THEN LowerCase[CHOOSE k \in 1..Len(UpperCase) : UpperCase[k] = str[i]]
        ELSE str[i]]

\* Array.prototype.includes
Includes(list, x) == \E i \in 1..Len(list) : list[i] = x

RESERVED_SLUGS ==
    << <<"a", "p", "p", "s">>,
       <<"s", "e", "t", "t", "i", "n", "g", "s">>,
       <<"d", "a", "s", "h", "b", "o", "a", "r", "d", "s">>,
       <<"p", "r", "e", "v", "i", "e", "w">>,
       <<"a", "p", "i">>,
       <<"a", "s", "s", "e", "t", "s">>,
       <<"v", "i", "t", "e">>,
       <<"f", "a", "v", "i", "c", "o", "n", ".", "i", "c", "o">>,
       <<"l", "o", "g", "i", "n">>,
       <<"l", "o", "g", "o", "u", "t">>,
       <<"a", "u", "t", "h">> >>

\* the PublicForm page: the form it fetched, or its "Form Not Found" card
PublicForm(url) ==
    LET r == PublicFormResponse(url) IN
    IF r.code # 200
    THEN [page |-> "NotFound"]
    ELSE [page |-> "form", questions |-> r.questions, sections |-> r.sections]

\* a route that hands every slug to the PublicForm page
RouteEverySlug(url) == PublicForm(url)
\* the route /:url of the client
PublicFormRoute(url) ==
    IF Includes(RESERVED_SLUGS, ToLowerCase(url))
    THEN [page |-> "NotFound"]
    ELSE PublicForm(url)

\* the slugs requested in the explored behaviours
RequestSlugs == {ApiSlug, ApiUpperSlug, SurveySlug, <<"x">>}

(***************************************************************************)
(* POST /api/public/students/lookup-bc                                     *)
(***************************************************************************)
\* identifiers are sequences of characters
BC1 == <<"B", "1">>
BC2 == <<"B", "2">>
BC3 == <<"B", "3">>
WhiteSpace == {" "}

RECURSIVE TrimStart(_)
TrimStart(str) ==
    IF str # <<>> /\ Head(str) \in WhiteSpace THEN TrimStart(Tail(str)) ELSE str

RECURSIVE TrimEnd(_)
TrimEnd(str) ==
    IF str # <<>> /\ str[Len(str)] \in WhiteSpace
    THEN TrimEnd(SubSeq(str, 1, Len(str) - 1)) ELSE str

\* String.prototype.trim
Trim(str) == TrimEnd(TrimStart(str))

\* a row of studentsDB; student_BC is unique
StudentRow(bc) ==
    [c \in {"student_BC", "fullName", "dateOfBirth", "gender", "level", "class",
            "centre", "guardianName", "guardianEmail", "guardianPhone", "address",
            "emergencyContact", "emergencyPhone", "medicalInfo", "status",
            "additionalData"} |->
        IF c = "student_BC" THEN bc
        ELSE IF c = "fullName" THEN Str(<<"n", "a", "m", "e">>)
        ELSE IF c = "status" THEN Str(<<"a", "c", "t", "i", "v", "e">>)
        ELSE Null]

\* storage.getForm
GetForm(formId) == IF formId \in FormIds THEN forms[formId] ELSE NoRow

\* storage.getStudentByStudentId
GetStudentByStudentId(studentBC) ==
    IF \E st \in students : st.student_BC = studentBC
    THEN CHOOSE st \in students : st.student_BC = studentBC
    ELSE NoRow

\* the selectedRespondents and formType the handler reads for a formId
LookupSelectedRespondents(formId) ==
    IF formId # Undef /\ GetForm(formId.v) # NoRow /\ GetForm(formId.v).settings # Null
    THEN GetForm(formId.v).settings.selectedRespondents
    ELSE <<>>

LookupFormType(formId) ==
    IF formId # Undef /\ GetForm(formId.v) # NoRow /\ GetForm(formId.v).settings # Null
    THEN GetForm(formId.v).formType
    ELSE "general"

\* the entry of a student in foundStudents and notSelectedStudents
StudentData(student) == [student_BC |-> student.student_BC, fullName |-> student.fullName]

\* a check of the allow-list whatever the form type
AllowListOfAnyForm(type, selectedRespondents) == Len(selectedRespondents) > 0
\* the condition under which selectedRespondents restricts the lookup
AllowListApplies(type, selectedRespondents) ==
    type = "parents_survey" /\ Len(selectedRespondents) > 0

\* a loop body that reports unselected students as found too
LookupStepFoundTwice(acc, bcNumber, type, selectedRespondents) ==
    LET trimmedBC == Trim(bcNumber)
        student == GetStudentByStudentId(trimmedBC)
    IN  IF trimmedBC = <<>> THEN acc
        ELSE IF student = NoRow
        THEN [acc EXCEPT !.notFoundBCNumbers = Append(@, trimmedBC)]
        ELSE IF AllowListApplies(type, selectedRespondents)
                /\ ~Includes(selectedRespondents, trimmedBC)
        THEN [acc EXCEPT !.foundStudents = Append(@, StudentData(student)),
                         !.notSelectedStudents = Append(@, StudentData(student))]
        ELSE [acc EXCEPT !.foundStudents = Append(@, StudentData(student))]
\* the body of the loop over bcNumbers
LookupStep(acc, bcNumber, type, selectedRespondents) ==
    LET trimmedBC == Trim(bcNumber)
        student == GetStudentByStudentId(trimmedBC)
    IN  IF trimmedBC = <<>> THEN acc
        ELSE IF student = NoRow
        THEN [acc EXCEPT !.notFoundBCNumbers = Append(@, trimmedBC)]
        ELSE IF AllowListApplies(type, selectedRespondents)
                /\ ~Includes(selectedRespondents, trimmedBC)
        THEN [acc EXCEPT !.notSelectedStudents = Append(@, StudentData(student))]
        ELSE [acc EXCEPT !.foundStudents = Append(@, StudentData(student))]

RECURSIVE LookupLoop(_, _, _, _)
LookupLoop(acc, bcNumbers, type, selectedRespondents) ==
    IF bcNumbers = <<>> THEN acc
    ELSE LookupLoop(LookupStep(acc, Head(bcNumbers), type, selectedRespondents),
                    Tail(bcNumbers), type, selectedRespondents)

LookupBCResult(bcNumbers, formId) ==
    IF bcNumbers.t # "array"
    THEN [code |-> 400]
    ELSE LET r == LookupLoop([foundStudents |-> <<>>, notFoundBCNumbers |-> <<>>,
                              notSelectedStudents |-> <<>>],
                             bcNumbers.v, LookupFormType(formId),
                             LookupSelectedRespondents(formId))
         IN  [code |-> 200,
              foundStudents |-> r.foundStudents,
              notFoundBCNumbers |-> r.notFoundBCNumbers,
              notSelectedStudents |-> IF Len(r.notSelectedStudents) > 0
                                      THEN Arr(r.notSelectedStudents) ELSE Undef]

\* lookup holds the last request and its response
LookupBC(bcNumbers, formId) ==
    /\ lookup' = [bcNumbers |-> bcNumbers, formId |-> formId,
                  response |-> LookupBCResult(bcNumbers, formId)]
    /\ UNCHANGED <<serverVars, students, respondent, builderVars, importVars, requestVars>>

\* the requests of SpecLookup
MaxBcNumbers == 2
MaxImports == 2
MaxCsvQuestions == 1
RawIdentifiers == {BC1, BC2, BC3, <<" ", "B", "1", " ">>, <<" ">>}
BcNumbersBodies ==
    {Undef} \cup {Arr(l) : l \in UNION {[1..n -> RawIdentifiers] : n \in 0..MaxBcNumbers}}
FormIdBodies == {Undef, Str("f1")}

\* the forms and the student store of SpecLookup
LookupSettings ==
    {Null} \cup {[t |-> "object", iconUrl |-> <<>>, selectedRespondents |-> l] :
                    l \in {<<>>, <<BC1>>, <<BC2, BC3>>}}
LookupForms ==
    {[NewFormRow("alice", [EmptyBody EXCEPT !.title = Str("t")])
         EXCEPT !.formType = ft, !.settings = st] :
        ft \in {"survey", "parents_survey"}, st \in LookupSettings}
LookupStores == {{StudentRow(bc) : bc \in l} : l \in {{}, {BC1, BC2}, {BC2}}}

(***************************************************************************)
(* BCInputComponent of the public form: the respondent's lookups           *)
(***************************************************************************)
\* the state of the component when it mounts
NewRespondent ==
    [foundStudents |-> <<>>, notFoundBCs |-> <<>>, notSelectedStudents |-> <<>>,
     duplicateCardBC |-> Null, bcNumbers |-> <<>>]

RECURSIVE SplitFrom(_, _, _)
SplitFrom(str, piece, pieces) ==
    IF str = <<>> THEN Append(pieces, piece)
    ELSE IF Head(str) = ","
    THEN SplitFrom(Tail(str), <<>>, Append(pieces, piece))
    ELSE SplitFrom(Tail(str), Append(piece, Head(str)), pieces)

\* String.prototype.split(',')
Split(str) == SplitFrom(str, <<>>, <<>>)

\* bcInput.split(',').map(bc => bc.trim()).filter(bc => bc)
ParseBcInput(bcInput) ==
    SelectSeq([i \in 1..Len(Split(bcInput)) |-> Trim(Split(bcInput)[i])],
              LAMBDA bc : bc # <<>>)

\* the student_BC values of a list of students
BCsOf(list) == {list[i].student_BC : i \in 1..Len(list)}

\* data.notSelectedStudents || []
NotSelectedOf(data) ==
    IF Truthy(data.notSelectedStudents) THEN data.notSelectedStudents.v ELSE <<>>

\* the try branch of handleLookup: the response data arrived
LookupSucceeded(r, data, bcNumbers) ==
    LET existingBCs == BCsOf(r.foundStudents)
        newStudents == SelectSeq(data.foundStudents,
                                 LAMBDA st : st.student_BC \notin existingBCs)
        duplicateStudents == SelectSeq(data.foundStudents,
                                       LAMBDA st : st.student_BC \in existingBCs)
        uniqueNewNotSelected ==
            SelectSeq(NotSelectedOf(data),
                      LAMBDA st : st.student_BC \notin BCsOf(r.notSelectedStudents))
    IN  [foundStudents |-> r.foundStudents \o newStudents,
         notFoundBCs |-> data.notFoundBCNumbers,
         notSelectedStudents |-> r.notSelectedStudents \o uniqueNewNotSelected,
         duplicateCardBC |-> IF Len(duplicateStudents) > 0
                             THEN Str(duplicateStudents[1].student_BC)
                             ELSE r.duplicateCardBC,
         bcNumbers |-> bcNumbers]

\* the catch branch of handleLookup: the request failed
LookupFailed(r, bcNumbers) ==
    [r EXCEPT !.notFoundBCs = bcNumbers, !.bcNumbers = bcNumbers]

\* handleLookup with the answer of the lookup endpoint; ok is FALSE when the
\* request fails
handleLookup(bcInput, formId, ok) ==
    LET bcNumbers == ParseBcInput(bcInput) IN
    /\ respondent' =
           IF Trim(bcInput) = <<>> THEN respondent
           ELSE IF ok
           THEN LookupSucceeded(respondent, LookupBCResult(Arr(bcNumbers), formId),
                                bcNumbers)
           ELSE LookupFailed(respondent, bcNumbers)
    /\ UNCHANGED <<serverVars, students, lookup, builderVars, importVars, requestVars>>

handleDeleteChild(bcToRemove) ==
    /\ respondent' =
           [respondent EXCEPT !.foundStudents =
                SelectSeq(@, LAMBDA st : st.student_BC # bcToRemove)]
    /\ UNCHANGED <<serverVars, students, lookup, builderVars, importVars, requestVars>>

\* setTimeout(() => setDuplicateCardBC(null), 3000)
ClearDuplicateCard ==
    /\ respondent.duplicateCardBC # Null
    /\ respondent' = [respondent EXCEPT !.duplicateCardBC = Null]
    /\ UNCHANGED <<serverVars, students, lookup, builderVars, importVars, requestVars>>

\* what the respondent types
BcInputs ==
    {BC1, BC2, BC3, <<" ">>,
     BC1 \o <<",">> \o BC2,
     <<" ">> \o BC2 \o <<" ", ",">> \o BC3,
     BC2 \o <<",", ",">> \o BC2}

(***************************************************************************)
(* Student import: the dialog StudentCSVUploader                           *)
(* (client/src/components/FormBuilder.tsx) and POST /api/students/bulk.    *)
(* A key of an import row holds Undef (absent) or Str(s); a nullable       *)
(* column of a stored student holds Null or Str(s), its student_BC the     *)
(* character sequence itself.  The additional-data bag is a function from  *)
(* keys to values, tagged "object" as a value.  createdBy is not tracked.  *)
(* The file is given as the table read from it: its header row and its     *)
(* data rows.                                                              *)
(***************************************************************************)
\* obj[key] = value on a plain object
Put(bag, key, value) ==
    [k \in DOMAIN bag \cup {key} |-> IF k = key THEN value ELSE bag[k]]

\* the columns of studentsDB that an import row may carry
StudentColumns ==
    {"student_BC", "fullName", "dateOfBirth", "gender", "level", "class",
     "centre", "guardianName", "guardianEmail", "guardianPhone", "address",
     "emergencyContact", "emergencyPhone", "medicalInfo", "status",
     "additionalData"}

\* the case labels of the switch on the lower-cased header, group by group
caseLabels ==
    [identifier |->
    {<<"b", "c", " ", "n", "o">>, <<"b", "c", " ", "n", "o", ".">>,
     <<"b", "c", "_", "n", "o">>, <<"b", "c", "_", "n", "o", ".">>,
     <<"b", "c", "n", "o">>, <<"b", "c", "n", "o", ".">>,
     <<"s", "t", "u", "d", "e", "n", "t", "i", "d">>,
     <<"s", "t", "u", "d", "e", "n", "t", "_", "i", "d">>, <<"i", "d">>},
     namePart |->
    {<<"f", "i", "r", "s", "t", "n", "a", "m", "e">>,
     <<"f", "i", "r", "s", "t", "_", "n", "a", "m", "e">>,
     <<"l", "a", "s", "t", "n", "a", "m", "e">>,
     <<"l", "a", "s", "t", "_", "n", "a", "m", "e">>},
     centre |->
    {<<"c", "e", "n", "t", "e", "r">>, <<"c", "e", "n", "t", "r", "e">>,
     <<"l", "e", "a", "r", "n", "i", "n", "g", "_", "c", "e", "n", "t", "e", "r">>,
     <<"l", "e", "a", "r", "n", "i", "n", "g", " ", "c", "e", "n", "t", "e", "r">>,
     <<"b", "r", "a", "n", "c", "h">>, <<"c", "a", "m", "p", "u", "s">>,
     <<"l", "o", "c", "a", "t", "i", "o", "n">>,
     <<"c", "e", "n", "t", "e", "r", " ", "n", "a", "m", "e">>,
     <<"c", "e", "n", "t", "r", "e", " ", "n", "a", "m", "e">>},
     level |->
    {<<"l", "e", "v", "e", "l">>, <<"s", "t", "d">>,
     <<"s", "t", "a", "n", "d", "a", "r", "d">>, <<"y", "e", "a", "r">>,
     <<"y", "e", "a", "r", "_", "l", "e", "v", "e", "l">>,
     <<"s", "t", "u", "d", "e", "n", "t", "_", "l", "e", "v", "e", "l">>,
     <<"c", "l", "a", "s", "s", " ", "l", "e", "v", "e", "l">>,
     <<"g", "r", "a", "d", "e", " ", "l", "e", "v", "e", "l">>},
     session |->
    {<<"s", "e", "s", "s", "i", "o", "n">>, <<"t", "i", "m", "i", "n", "g">>,
     <<"t", "i", "m", "e", "_", "s", "l", "o", "t">>,
     <<"t", "i", "m", "e", " ", "s", "l", "o", "t">>,
     <<"s", "e", "s", "s", "i", "o", "n", " ", "t", "i", "m", "e">>,
     <<"s", "c", "h", "e", "d", "u", "l", "e">>, <<"b", "a", "t", "c", "h">>},
     admissionDate |->
    {<<"a", "d", "m", "i", "s", "s", "i", "o", "n", " ", "d", "a", "t", "e">>,
     <<"a", "d", "m", "i", "s", "s", "i", "o", "n", "_", "d", "a", "t", "e">>,
     <<"a", "d", "m", "i", "s", "s", "i", "o", "n", "d", "a", "t", "e">>},
     startDate |->
    {<<"s", "t", "a", "r", "t", " ", "d", "a", "t", "e">>,
     <<"s", "t", "a", "r", "t", "_", "d", "a", "t", "e">>,
     <<"s", "t", "a", "r", "t", "d", "a", "t", "e">>},
     endDate |->
    {<<"e", "n", "d", " ", "d", "a", "t", "e">>,
     <<"e", "n", "d", "_", "d", "a", "t", "e">>,
     <<"e", "n", "d", "d", "a", "t", "e">>},
     dateOfBirth |->
    {<<"b", "i", "r", "t", "h", "d", "a", "t", "e">>,
     <<"b", "i", "r", "t", "h", "_", "d", "a", "t", "e">>,
     <<"d", "a", "t", "e", "_", "o", "f", "_", "b", "i", "r", "t", "h">>,
     <<"d", "a", "t", "e", "o", "f", "b", "i", "r", "t", "h">>,
     <<"d", "o", "b">>},
     status |->
    {<<"e", "n", "r", "o", "l", "m", "e", "n", "t", " ", "s", "t", "a", "t", "u", "s">>,
     <<"e", "n", "r", "o", "l", "m", "e", "n", "t", "_", "s", "t", "a", "t", "u", "s">>,
     <<"e", "n", "r", "o", "l", "l", "m", "e", "n", "t", "_", "s", "t", "a", "t", "u", "s">>,
     <<"e", "n", "r", "o", "l", "l", "m", "e", "n", "t">>,
     <<"s", "t", "a", "t", "u", "s">>},
     fullName |->
    {<<"f", "u", "l", "l", "n", "a", "m", "e">>,
     <<"f", "u", "l", "l", "_", "n", "a", "m", "e">>, <<"n", "a", "m", "e">>},
     contact |->
    {<<"e", "m", "a", "i", "l">>,
     <<"e", "m", "a", "i", "l", "_", "a", "d", "d", "r", "e", "s", "s">>,
     <<"p", "h", "o", "n", "e", "n", "u", "m", "b", "e", "r">>,
     <<"p", "h", "o", "n", "e", "_", "n", "u", "m", "b", "e", "r">>,
     <<"p", "h", "o", "n", "e">>},
     gender |->
    {<<"g", "e", "n", "d", "e", "r">>},
     grade |->
    {<<"g", "r", "a", "d", "e">>,
     <<"c", "l", "a", "s", "s", "_", "l", "e", "v", "e", "l">>},
     class |->
    {<<"c", "l", "a", "s", "s">>,
     <<"c", "l", "a", "s", "s", "r", "o", "o", "m">>},
     section |->
    {<<"s", "e", "c", "t", "i", "o", "n">>},
     guardianName |->
    {<<"g", "u", "a", "r", "d", "i", "a", "n", "n", "a", "m", "e">>,
     <<"g", "u", "a", "r", "d", "i", "a", "n", "_", "n", "a", "m", "e">>,
     <<"p", "a", "r", "e", "n", "t", "_", "n", "a", "m", "e">>},
     guardianEmail |->
    {<<"g", "u", "a", "r", "d", "i", "a", "n", "e", "m", "a", "i", "l">>,
     <<"g", "u", "a", "r", "d", "i", "a", "n", "_", "e", "m", "a", "i", "l">>,
     <<"p", "a", "r", "e", "n", "t", "_", "e", "m", "a", "i", "l">>},
     guardianPhone |->
    {<<"g", "u", "a", "r", "d", "i", "a", "n", "p", "h", "o", "n", "e">>,
     <<"g", "u", "a", "r", "d", "i", "a", "n", "_", "p", "h", "o", "n", "e">>,
     <<"p", "a", "r", "e", "n", "t", "_", "p", "h", "o", "n", "e">>},
     address |->
    {<<"a", "d", "d", "r", "e", "s", "s">>},
     emergencyContact |->
    {<<"e", "m", "e", "r", "g", "e", "n", "c", "y", "c", "o", "n", "t", "a", "c", "t">>,
     <<"e", "m", "e", "r", "g", "e", "n", "c", "y", "_", "c", "o", "n", "t", "a", "c", "t">>},
     emergencyPhone |->
    {<<"e", "m", "e", "r", "g", "e", "n", "c", "y", "p", "h", "o", "n", "e">>,
     <<"e", "m", "e", "r", "g", "e", "n", "c", "y", "_", "p", "h", "o", "n", "e">>},
     medicalInfo |->
    {<<"m", "e", "d", "i", "c", "a", "l", "i", "n", "f", "o">>,
     <<"m", "e", "d", "i", "c", "a", "l", "_", "i", "n", "f", "o">>,
     <<"m", "e", "d", "i", "c", "a", "l", "_", "i", "n", "f", "o", "r", "m", "a", "t", "i", "o", "n">>}]

\* the list knownFields
knownFields ==
    {<<"b", "c", " ", "n", "o">>, <<"b", "c", "_", "n", "o">>,
     <<"b", "c", "n", "o">>, <<"s", "t", "u", "d", "e", "n", "t", "i", "d">>,
     <<"s", "t", "u", "d", "e", "n", "t", "_", "i", "d">>, <<"i", "d">>,
     <<"f", "i", "r", "s", "t", "n", "a", "m", "e">>,
     <<"f", "i", "r", "s", "t", "_", "n", "a", "m", "e">>,
     <<"l", "a", "s", "t", "n", "a", "m", "e">>,
     <<"l", "a", "s", "t", "_", "n", "a", "m", "e">>,
     <<"f", "u", "l", "l", "n", "a", "m", "e">>,
     <<"f", "u", "l", "l", "_", "n", "a", "m", "e">>, <<"n", "a", "m", "e">>,
     <<"c", "e", "n", "t", "e", "r">>, <<"c", "e", "n", "t", "r", "e">>,
     <<"l", "e", "a", "r", "n", "i", "n", "g", "_", "c", "e", "n", "t", "e", "r">>,
     <<"l", "e", "a", "r", "n", "i", "n", "g", " ", "c", "e", "n", "t", "e", "r">>,
     <<"b", "r", "a", "n", "c", "h">>, <<"c", "a", "m", "p", "u", "s">>,
     <<"l", "o", "c", "a", "t", "i", "o", "n">>,
     <<"c", "e", "n", "t", "e", "r", " ", "n", "a", "m", "e">>,
     <<"c", "e", "n", "t", "r", "e", " ", "n", "a", "m", "e">>,
     <<"l", "e", "v", "e", "l">>, <<"s", "t", "d">>,
     <<"s", "t", "a", "n", "d", "a", "r", "d">>, <<"y", "e", "a", "r">>,
     <<"y", "e", "a", "r", "_", "l", "e", "v", "e", "l">>,
     <<"s", "t", "u", "d", "e", "n", "t", "_", "l", "e", "v", "e", "l">>,
     <<"c", "l", "a", "s", "s", " ", "l", "e", "v", "e", "l">>,
     <<"g", "r", "a", "d", "e", " ", "l", "e", "v", "e", "l">>,
     <<"s", "e", "s", "s", "i", "o", "n">>, <<"t", "i", "m", "i", "n", "g">>,
     <<"t", "i", "m", "e", "_", "s", "l", "o", "t">>,
     <<"t", "i", "m", "e", " ", "s", "l", "o", "t">>,
     <<"s", "e", "s", "s", "i", "o", "n", " ", "t", "i", "m", "e">>,
     <<"s", "c", "h", "e", "d", "u", "l", "e">>, <<"b", "a", "t", "c", "h">>,
     <<"a", "d", "m", "i", "s", "s", "i", "o", "n", " ", "d", "a", "t", "e">>,
     <<"a", "d", "m", "i", "s", "s", "i", "o", "n", "_", "d", "a", "t", "e">>,
     <<"a", "d", "m", "i", "s", "s", "i", "o", "n", "d", "a", "t", "e">>,
     <<"s", "t", "a", "r", "t", " ", "d", "a", "t", "e">>,
     <<"s", "t", "a", "r", "t", "_", "d", "a", "t", "e">>,
     <<"s", "t", "a", "r", "t", "d", "a", "t", "e">>,
     <<"e", "n", "d", " ", "d", "a", "t", "e">>,
     <<"e", "n", "d", "_", "d", "a", "t", "e">>,
     <<"e", "n", "d", "d", "a", "t", "e">>,
     <<"b", "i", "r", "t", "h", "d", "a", "t", "e">>,
     <<"b", "i", "r", "t", "h", "_", "d", "a", "t", "e">>,
     <<"d", "a", "t", "e", "_", "o", "f", "_", "b", "i", "r", "t", "h">>,
     <<"d", "a", "t", "e", "o", "f", "b", "i", "r", "t", "h">>,
     <<"d", "o", "b">>,
     <<"e", "n", "r", "o", "l", "m", "e", "n", "t", " ", "s", "t", "a", "t", "u", "s">>,
     <<"e", "n", "r", "o", "l", "m", "e", "n", "t", "_", "s", "t", "a", "t", "u", "s">>,
     <<"e", "n", "r", "o", "l", "l", "m", "e", "n", "t", "_", "s", "t", "a", "t", "u", "s">>,
     <<"e", "n", "r", "o", "l", "l", "m", "e", "n", "t">>,
     <<"s", "t", "a", "t", "u", "s">>, <<"e", "m", "a", "i", "l">>,
     <<"e", "m", "a", "i", "l", "_", "a", "d", "d", "r", "e", "s", "s">>,
     <<"p", "h", "o", "n", "e", "n", "u", "m", "b", "e", "r">>,
     <<"p", "h", "o", "n", "e", "_", "n", "u", "m", "b", "e", "r">>,
     <<"p", "h", "o", "n", "e">>, <<"g", "e", "n", "d", "e", "r">>,
     <<"g", "r", "a", "d", "e">>,
     <<"c", "l", "a", "s", "s", "_", "l", "e", "v", "e", "l">>,
     <<"c", "l", "a", "s", "s">>,
     <<"c", "l", "a", "s", "s", "r", "o", "o", "m">>,
     <<"s", "e", "c", "t", "i", "o", "n">>,
     <<"g", "u", "a", "r", "d", "i", "a", "n", "n", "a", "m", "e">>,
     <<"g", "u", "a", "r", "d", "i", "a", "n", "_", "n", "a", "m", "e">>,
     <<"p", "a", "r", "e", "n", "t", "_", "n", "a", "m", "e">>,
     <<"g", "u", "a", "r", "d", "i", "a", "n", "e", "m", "a", "i", "l">>,
     <<"g", "u", "a", "r", "d", "i", "a", "n", "_", "e", "m", "a", "i", "l">>,
     <<"p", "a", "r", "e", "n", "t", "_", "e", "m", "a", "i", "l">>,
     <<"g", "u", "a", "r", "d", "i", "a", "n", "p", "h", "o", "n", "e">>,
     <<"g", "u", "a", "r", "d", "i", "a", "n", "_", "p", "h", "o", "n", "e">>,
     <<"p", "a", "r", "e", "n", "t", "_", "p", "h", "o", "n", "e">>,
     <<"a", "d", "d", "r", "e", "s", "s">>,
     <<"e", "m", "e", "r", "g", "e", "n", "c", "y", "c", "o", "n", "t", "a", "c", "t">>,
     <<"e", "m", "e", "r", "g", "e", "n", "c", "y", "_", "c", "o", "n", "t", "a", "c", "t">>,
     <<"e", "m", "e", "r", "g", "e", "n", "c", "y", "p", "h", "o", "n", "e">>,
     <<"e", "m", "e", "r", "g", "e", "n", "c", "y", "_", "p", "h", "o", "n", "e">>,
     <<"m", "e", "d", "i", "c", "a", "l", "i", "n", "f", "o">>,
     <<"m", "e", "d", "i", "c", "a", "l", "_", "i", "n", "f", "o">>,
     <<"m", "e", "d", "i", "c", "a", "l", "_", "i", "n", "f", "o", "r", "m", "a", "t", "i", "o", "n">>}

\* a list of known fields without 'name'
isKnownFieldExceptName(header) == ToLowerCase(header) \in knownFields \ {<<"n", "a", "m", "e">>}

isKnownField(header) == ToLowerCase(header) \in knownFields

\* rowData.<column> = value
SetColumn(rowData, column, value) == [rowData EXCEPT ![column] = Str(value)]

\* rowData.additionalData[key] = value
SetBag(rowData, key, value) ==
    [rowData EXCEPT !.additionalData =
        [t |-> "object", v |-> Put(rowData.additionalData.v, key, value)]]

\* one iteration of the first headers.forEach: the switch on the header
MapHeader(row, header, value) ==
    LET rowData == IF row.additionalData = Undef
                   THEN [row EXCEPT !.additionalData = [t |-> "object", v |-> <<>>]]
                   ELSE row
        h == ToLowerCase(header)
        bag == rowData.additionalData.v
    IN  IF value = <<>> THEN rowData
        ELSE CASE h \in caseLabels.identifier ->
                      SetBag(SetColumn(rowData, "student_BC", value), <<"b", "c", "N", "o">>, value)
               [] h \in caseLabels.namePart \cup caseLabels.contact ->
                      SetBag(rowData, header, value)
               [] h \in caseLabels.centre ->
                      IF rowData.centre # Undef /\ rowData.centre.v # <<>> THEN rowData
                      ELSE SetBag(SetColumn(rowData, "centre", value), <<"c", "e", "n", "t", "e", "r">>, value)
               [] h \in caseLabels.level ->
                      IF rowData.level # Undef /\ rowData.level.v # <<>> THEN rowData
                      ELSE SetColumn(rowData, "level", value)
               [] h \in caseLabels.session ->
                      IF <<"s", "e", "s", "s", "i", "o", "n">> \in DOMAIN bag /\ bag[<<"s", "e", "s", "s", "i", "o", "n">>] # <<>>
                      THEN rowData
                      ELSE SetBag(SetBag(rowData, <<"s", "e", "s", "s", "i", "o", "n">>, value),
                                  <<"s", "e", "s", "s", "i", "o", "n", "_", "i", "n", "f", "o">>, value)
               [] h \in caseLabels.admissionDate -> SetBag(rowData, <<"a", "d", "m", "i", "s", "s", "i", "o", "n", "D", "a", "t", "e">>, value)
               [] h \in caseLabels.startDate -> SetBag(rowData, <<"s", "t", "a", "r", "t", "D", "a", "t", "e">>, value)
               [] h \in caseLabels.endDate -> SetBag(rowData, <<"e", "n", "d", "D", "a", "t", "e">>, value)
               [] h \in caseLabels.dateOfBirth -> SetColumn(rowData, "dateOfBirth", value)
               [] h \in caseLabels.status ->
                      SetBag(SetColumn(rowData, "status", ToLowerCase(value)),
                             <<"e", "n", "r", "o", "l", "l", "m", "e", "n", "t">>, value)
               [] h \in caseLabels.fullName -> SetColumn(rowData, "fullName", value)
               [] h \in caseLabels.gender -> SetColumn(rowData, "gender", value)
               [] h \in caseLabels.grade -> SetColumn(rowData, "level", value)
               [] h \in caseLabels.class -> SetColumn(rowData, "class", value)
               [] h \in caseLabels.section -> SetBag(rowData, <<"s", "e", "c", "t", "i", "o", "n">>, value)
               [] h \in caseLabels.guardianName -> SetColumn(rowData, "guardianName", value)
               [] h \in caseLabels.guardianEmail -> SetColumn(rowData, "guardianEmail", value)
               [] h \in caseLabels.guardianPhone -> SetColumn(rowData, "guardianPhone", value)
               [] h \in caseLabels.address -> SetColumn(rowData, "address", value)
               [] h \in caseLabels.emergencyContact ->
                      SetColumn(rowData, "emergencyContact", value)
               [] h \in caseLabels.emergencyPhone ->
                      SetColumn(rowData, "emergencyPhone", value)
               [] h \in caseLabels.medicalInfo -> SetColumn(rowData, "medicalInfo", value)
               [] OTHER -> rowData

\* row[colIndex] ? String(row[colIndex]).trim() : ''
CellValue(row, colIndex) == IF colIndex <= Len(row) THEN Trim(row[colIndex]) ELSE <<>>

\* the two headers.forEach of a data row: the switch (pass 1), then the
\* columns whose header is not a known field (pass 2)
RECURSIVE MapColumns(_, _, _, _, _)
MapColumns(rowData, headers, row, colIndex, pass) ==
    IF colIndex > Len(headers) THEN rowData
    ELSE MapColumns(
             IF pass = 1
             THEN MapHeader(rowData, headers[colIndex], CellValue(row, colIndex))
             ELSE IF /\ CellValue(row, colIndex) # <<>>
                     /\ headers[colIndex] # <<>>
                     /\ ~isKnownField(ToLowerCase(headers[colIndex]))
             THEN SetBag(rowData, headers[colIndex], CellValue(row, colIndex))
             ELSE rowData,
             headers, row, colIndex + 1, pass)

\* the rowData that parseDataRows builds from one data row
MapRow(headers, row) ==
    MapColumns(MapColumns([c \in StudentColumns |-> Undef], headers, row, 1, 1),
               headers, row, 1, 2)

\* /^[^\s@]+@[^\s@]+\.[^\s@]+$/.test(str)
emailRegex(str) ==
    \E at \in 2..Len(str), dot \in 3..Len(str) - 1 :
        /\ str[at] = "@"
        /\ str[dot] = "."
        /\ at + 1 < dot
        /\ \A k \in (1..Len(str)) \ {at} : str[k] \notin WhiteSpace \cup {"@"}

\* validateStudentRow: the list of the row's errors
validateStudentRow(data) ==
    (IF ~(data.student_BC # Undef /\ Trim(data.student_BC.v) # <<>>)
     THEN <<"BC No is required">> ELSE <<>>)
    \o (IF data.guardianEmail # Undef /\ Trim(data.guardianEmail.v) # <<>>
           /\ ~emailRegex(Trim(data.guardianEmail.v))
        THEN <<"Invalid guardian email format">> ELSE <<>>)

\* the state of the dialog when it opens and after handleClose
NewUploader == [parsedData |-> <<>>, validationErrors |-> <<>>]

\* dataRows.forEach: the entries of parsedData, blank rows skipped; the row
\* at position index (from 1) has the number index + 1
RECURSIVE ParseRows(_, _, _)
ParseRows(headers, dataRows, index) ==
    IF index > Len(dataRows) THEN <<>>
    ELSE (IF \A i \in 1..Len(dataRows[index]) : Trim(dataRows[index][i]) = <<>>
          THEN <<>>
          ELSE LET data == MapRow(headers, dataRows[index])
               IN  <<[index |-> index + 1, data |-> data,
                      valid |-> validateStudentRow(data) = <<>>,
                      errors |-> validateStudentRow(data)]>>)
         \o ParseRows(headers, dataRows, index + 1)

\* the errors list: one entry for each row that has errors
RowErrors(parsed) ==
    LET bad == SelectSeq(parsed, LAMBDA p : ~p.valid)
    IN  [i \in 1..Len(bad) |-> [row |-> bad[i].index, errors |-> bad[i].errors]]

\* parseCSVWithPapa / parseExcelFile, then parseDataRows
parseDataRows(fileHeaders, dataRows) ==
    LET headers == [i \in 1..Len(fileHeaders) |-> Trim(fileHeaders[i])]
        variants ==
    {<<"b", "c", " ", "n", "o">>, <<"b", "c", "_", "n", "o">>,
     <<"b", "c", "n", "o">>, <<"b", "c", " ", "n", "o", ".">>,
     <<"b", "c", "_", "n", "o", ".">>, <<"b", "c", "n", "o", ".">>,
     <<"s", "t", "u", "d", "e", "n", "t", "_", "i", "d">>,
     <<"s", "t", "u", "d", "e", "n", "t", "i", "d">>, <<"i", "d">>}
        parsed == ParseRows(headers, dataRows, 1)
    IN  /\ studentUpload' =
               IF Len(dataRows) < 1
               THEN [studentUpload EXCEPT
                        !.validationErrors = <<"at least a header row and one data row">>]
               ELSE IF ~\E i \in 1..Len(headers) : ToLowerCase(headers[i]) \in variants
               THEN [studentUpload EXCEPT
                        !.validationErrors = <<"Missing required headers">>]
               ELSE [parsedData |-> parsed, validationErrors |-> RowErrors(parsed)]
        /\ UNCHANGED <<serverVars, lookupVars, builderVars, requestVars, importReport, csvUpload,
                       csvReport>>

\* the row that storage.createStudent inserts
createStudent(student) ==
    [c \in StudentColumns |->
        IF c = "student_BC" THEN student.student_BC.v
        ELSE IF student[c] # Undef THEN student[c]
        ELSE IF c = "status" THEN Str(<<"a", "c", "t", "i", "v", "e">>)
        ELSE Null]

\* a re-import that leaves a stored student as it is
KeepExisting(existing, student) == existing

\* the row that storage.updateStudent leaves: .set(updates)
updateStudent(existing, student) ==
    [c \in StudentColumns |->
        IF c = "student_BC" THEN student.student_BC.v
        ELSE IF student[c] # Undef THEN student[c]
        ELSE existing[c]]

\* one turn of the loop of storage.bulkCreateStudents; a turn that fails
\* throws inside the try block and is skipped
ImportOne(acc, student, failed) ==
    IF failed THEN acc
    ELSE IF \E st \in acc.store : st.student_BC = student.student_BC.v
    THEN LET existing == CHOOSE st \in acc.store : st.student_BC = student.student_BC.v
             updated == updateStudent(existing, student)
         IN  [store |-> (acc.store \ {existing}) \cup {updated},
              results |-> Append(acc.results, updated)]
    ELSE [store |-> acc.store \cup {createStudent(student)},
          results |-> Append(acc.results, createStudent(student))]

RECURSIVE bulkCreateStudents(_, _, _, _)
RECURSIVE AbortOnFailure(_, _, _, _)
\* a loop that stops at the first turn that fails
AbortOnFailure(acc, studentData, failing, i) ==
    IF i > Len(studentData) \/ i \in failing THEN acc
    ELSE AbortOnFailure(ImportOne(acc, studentData[i], FALSE), studentData, failing, i + 1)

\* storage.bulkCreateStudents from turn i on; the turns listed in failing fail
bulkCreateStudents(acc, studentData, failing, i) ==
    IF i > Len(studentData) THEN acc
    ELSE bulkCreateStudents(ImportOne(acc, studentData[i], i \in failing),
                            studentData, failing, i + 1)

\* POST /api/students/bulk: the status, the students of the response and the
\* table the request leaves.  insertStudentSchema takes a row whose columns
\* are absent, null or strings
BulkStudentsResult(store, body, failing) ==
    IF body.t # "array" \/ body.v = <<>>
    THEN [code |-> 400, students |-> <<>>, store |-> store]
    ELSE IF \E i \in 1..Len(body.v) :
                \E c \in StudentColumns \ {"additionalData"} :
                    body.v[i][c].t \notin {"undefined", "null", "string"}
    THEN [code |-> 400, students |-> <<>>, store |-> store]
    ELSE LET done == bulkCreateStudents([store |-> store, results |-> <<>>],
                                        body.v, failing, 1)
         IN  [code |-> 200, students |-> done.results, store |-> done.store]

\* what an import tells its caller; request, failing, previous and number
\* record the rows sent, the turns that failed, the rows of the import before
\* and the count of imports
ImportReport(title, imported, request, failing, response) ==
    [title |-> title, imported |-> imported, request |-> request,
     failing |-> failing, response |-> [code |-> response.code, students |-> response.students],
     previous |-> IF importReport = Null THEN <<>> ELSE importReport.request,
     number |-> IF importReport = Null THEN 1 ELSE importReport.number + 1]

\* a request sent to the endpoint without the dialog
PostStudentsBulk(body, failing) ==
    LET response == BulkStudentsResult(students, body, failing)
    IN  /\ importReport # Null => importReport.number < MaxImports
        /\ failing \subseteq (IF response.code = 200 THEN 1..Len(body.v) ELSE {})
        /\ students' = response.store
        /\ importReport' = ImportReport("response", Len(response.students),
                                        IF body.t = "array" THEN body.v ELSE <<>>,
                                        failing, response)
        /\ UNCHANGED <<serverVars, lookup, respondent, builderVars, requestVars, studentUpload,
                       csvUpload, csvReport>>

\* the status that handleUpload sends for a row
NormalizeStatus(studentData) ==
    IF studentData.status = Undef \/ Trim(studentData.status.v) = <<>>
    THEN [studentData EXCEPT !.status = Str(<<"a", "c", "t", "i", "v", "e">>)]
    ELSE IF Trim(ToLowerCase(studentData.status.v)) \in
    {<<"a", "c", "t", "i", "v", "e">>,
     <<"i", "n", "a", "c", "t", "i", "v", "e">>,
     <<"t", "r", "a", "n", "s", "f", "e", "r", "r", "e", "d">>,
     <<"g", "r", "a", "d", "u", "a", "t", "e", "d">>}
    THEN [studentData EXCEPT !.status = Str(Trim(ToLowerCase(studentData.status.v)))]
    ELSE [studentData EXCEPT !.status = Str(<<"a", "c", "t", "i", "v", "e">>)]

\* handleUpload of the dialog; its button is disabled while validationErrors
\* is not empty
handleUpload(failing) ==
    LET valid == SelectSeq(studentUpload.parsedData, LAMBDA row : row.valid)
        validStudents == [i \in 1..Len(valid) |-> NormalizeStatus(valid[i].data)]
        response == BulkStudentsResult(students, Arr(validStudents), failing)
    IN  /\ importReport # Null => importReport.number < MaxImports
        /\ studentUpload.validationErrors = <<>>
        /\ studentUpload.parsedData # <<>>
        /\ failing \subseteq 1..Len(validStudents)
        /\ students' = response.store
        /\ IF response.code = 200
           THEN /\ importReport' = ImportReport("Import Successful", Len(validStudents),
                                                validStudents, failing, response)
                /\ studentUpload' = NewUploader
           ELSE /\ importReport' = ImportReport("Import Failed", 0, validStudents,
                                                failing, response)
                /\ UNCHANGED studentUpload
        /\ UNCHANGED <<serverVars, lookup, respondent, builderVars, requestVars, csvUpload,
                       csvReport>>

\* the tables read from the files tried
ImportFiles ==
    {[headers |-> <<<<"B", "c", " ", "N", "o">>, <<"N", "a", "m", "e">>>>, rows |-> <<<<<<"A", "1">>, <<"J", "a", "n", "e">>>>>>],
     [headers |-> <<<<"B", "C", " ", "N", "o">>, <<"I", "D">>, <<"C", "e", "n", "t", "r", "e">>, <<"C", "a", "m", "p", "u", "s">>>>,
      rows |-> <<<<BC1, BC2, <<"X">>, <<"Y">>>>>>],
     [headers |-> <<<<"B", "C", " ", "N", "o">>, <<"N", "a", "m", "e">>>>,
      rows |-> <<<<BC1, <<"J", "a", "n", "e">>>>, <<<< >>, <<"T", "o", "m">>>>>>],
     [headers |-> <<<<"B", "C", " ", "N", "o">>, <<"N", "a", "m", "e">>>>,
      rows |-> <<<<BC1, <<"J", "a", "n", "e">>>>, <<BC2, <<"T", "o", "m">>>>>>],
     [headers |-> <<<<"B", "C", " ", "N", "o">>, <<"L", "e", "v", "e", "l">>, <<"S", "t", "a", "t", "u", "s">>>>,
      rows |-> <<<<BC1, <<"3">>, <<"I", "n", "a", "c", "t", "i", "v", "e">>>>>>],
     [headers |-> <<<<"B", "C", " ", "N", "o">>, <<"G", "u", "a", "r", "d", "i", "a", "n", "_", "E", "m", "a", "i", "l">>, <<"S", "h", "o", "e">>>>,
      rows |-> <<<<<<" ">>, <<"a", "@", "b", ".", "c">>, <<"9">>>>, <<BC2, <<"a", "@", "b">>>>>>],
     [headers |-> <<<<"N", "a", "m", "e">>>>, rows |-> <<<<<<"J", "a", "n", "e">>>>>>],
     [headers |-> <<<<"B", "C", " ", "N", "o">>, <<"N", "a", "m", "e">>>>, rows |-> << >>]}

\* the bodies of the requests sent to the endpoint without the dialog
BulkBodies ==
    LET ApiRow(studentBC, fullName) ==
            [c \in StudentColumns |->
                IF c = "student_BC" THEN Str(studentBC)
                ELSE IF c = "fullName" THEN fullName
                ELSE Undef]
    IN  {Undef, Arr(<< >>),
         Arr(<<ApiRow(<< >>, Str(<<"T", "o", "m">>))>>),
         Arr(<<ApiRow(BC1, Str(<<"J", "a", "n", "e">>)), ApiRow(BC2, [t |-> "number"])>>),
         Arr(<<ApiRow(BC1, Str(<<"J", "a", "n", "e">>)), ApiRow(BC1, Str(<<"A", "n", "n">>))>>)}

(***************************************************************************)
(* CSVUploader (client/src/components/CSVUploader.tsx): the import of      *)
(* questions and respondents from CSV text.  The text is given as the      *)
(* table its lines split into: the header names and, for each data line,   *)
(* the values parseCSVLine returns (a blank line is the empty row).  A     *)
(* number is a record [nan, value].                                        *)
(***************************************************************************)
\* data.<header>, undefined and '' alike
Field(data, header) == IF header \in DOMAIN data THEN data[header] ELSE <<>>

\* the value of a digit in a radix, or -1 when the character is not one
DigitValue(char, radix) ==
    LET digits == <<"0", "1", "2", "3", "4", "5", "6", "7", "8", "9",
                    "a", "b", "c", "d", "e", "f">>
    IN  IF \E d \in 1..radix : digits[d] = ToLowerCase(<<char>>)[1]
        THEN (CHOOSE d \in 1..radix : digits[d] = ToLowerCase(<<char>>)[1]) - 1
        ELSE -1

\* the value of the longest prefix of str made of digits of the radix, from
\* the value acc of the digits before it; seen tells whether there were any
RECURSIVE DigitsValue(_, _, _, _)
DigitsValue(str, radix, acc, seen) ==
    IF str = <<>> \/ DigitValue(Head(str), radix) < 0
    THEN [nan |-> ~seen, value |-> acc]
    ELSE DigitsValue(Tail(str), radix, acc * radix + DigitValue(Head(str), radix), TRUE)

\* parseInt(str): leading white space, a sign, a 0x prefix, then the digits
\* up to the first character that is not one
parseInt(str) ==
    LET s == TrimStart(str)
        signed == s # <<>> /\ Head(s) \in {"+", "-"}
        unsigned == IF signed THEN Tail(s) ELSE s
        hex == Len(unsigned) >= 2 /\ unsigned[1] = "0" /\ unsigned[2] \in {"x", "X"}
        number == DigitsValue(IF hex THEN SubSeq(unsigned, 3, Len(unsigned)) ELSE unsigned,
                              IF hex THEN 16 ELSE 10, 0, FALSE)
    IN  IF signed /\ Head(s) = "-" /\ ~number.nan
        THEN [nan |-> FALSE, value |-> 0 - number.value]
        ELSE number

\* validateRow: the list of the row's errors
validateRow(data, type) ==
    LET validTypes ==
    {<<"s", "l", "s">>, <<"t", "e", "x", "t">>, <<"e", "m", "a", "i", "l">>,
     <<"p", "h", "o", "n", "e">>, <<"n", "u", "m", "b", "e", "r">>,
     <<"t", "e", "x", "t", "a", "r", "e", "a">>,
     <<"s", "e", "l", "e", "c", "t">>,
     <<"m", "u", "l", "t", "i", "p", "l", "e", "C", "h", "o", "i", "c", "e">>,
     <<"c", "h", "e", "c", "k", "b", "o", "x">>, <<"r", "a", "d", "i", "o">>,
     <<"r", "a", "t", "i", "n", "g">>, <<"d", "a", "t", "e">>,
     <<"d", "a", "t", "e", "t", "i", "m", "e">>,
     <<"t", "r", "u", "e", "F", "a", "l", "s", "e">>}
        optionBasedTypes ==
    {<<"s", "e", "l", "e", "c", "t">>,
     <<"m", "u", "l", "t", "i", "p", "l", "e", "C", "h", "o", "i", "c", "e">>,
     <<"c", "h", "e", "c", "k", "b", "o", "x">>, <<"r", "a", "d", "i", "o">>}
        scale == parseInt(Field(data, "scale"))
    IN  IF type = "questions"
        THEN (IF Field(data, "question_type") = <<>>
              THEN <<"Question type is required">> ELSE <<>>)
             \o (IF Field(data, "question_text") = <<>>
                 THEN <<"Question text is required">> ELSE <<>>)
             \o (IF Field(data, "question_type") # <<>>
                    /\ Field(data, "question_type") \notin validTypes
                 THEN <<"Invalid question type">> ELSE <<>>)
             \o (IF Field(data, "required") # <<>>
                    /\ ToLowerCase(Field(data, "required"))
                           \notin {<<"t", "r", "u", "e">>, <<"f", "a", "l", "s", "e">>, <<"1">>, <<"0">>}
                 THEN <<"Required field must be true/false or 1/0">> ELSE <<>>)
             \o (IF Field(data, "question_type") \in optionBasedTypes
                    /\ Field(data, "options") = <<>>
                 THEN <<"questions require options">> ELSE <<>>)
             \o (IF Field(data, "question_type") # <<"r", "a", "t", "i", "n", "g">> THEN <<>>
                 ELSE IF Field(data, "scale") = <<>>
                 THEN <<"Rating questions require a scale value">>
                 ELSE IF scale.nan \/ scale.value \notin {3, 5, 7, 10}
                 THEN <<"Rating scale must be 3, 5, 7, or 10">>
                 ELSE <<>>)
        ELSE (IF Field(data, "name") = <<>> THEN <<"Name is required">> ELSE <<>>)
             \o (IF Field(data, "email") = <<>> THEN <<"Email is required">> ELSE <<>>)
             \o (IF Field(data, "email") # <<>> /\ ~emailRegex(Field(data, "email"))
                 THEN <<"Invalid email format">> ELSE <<>>)

\* the dialog as it opens for an upload type and a form, and after handleClose
NewCsvUploader(uploadType, formId) ==
    [uploadType |-> uploadType, formId |-> formId,
     parsedData |-> <<>>, validationErrors |-> <<>>]

\* the loop over the data lines: the entries of parsedData, blank lines
\* skipped; headers.forEach((header, index) => rowData[header] = values[index] || '')
RECURSIVE CsvParseLines(_, _, _, _)
CsvParseLines(headers, lines, uploadType, i) ==
    IF i > Len(lines) THEN <<>>
    ELSE (IF lines[i] = <<>> THEN <<>>
          ELSE LET rowData ==
                       [header \in {headers[k] : k \in 1..Len(headers)} |->
                           LET index == CHOOSE k \in 1..Len(headers) :
                                            /\ headers[k] = header
                                            /\ \A j \in k + 1..Len(headers) :
                                                   headers[j] # header
                           IN  IF index <= Len(lines[i]) THEN lines[i][index] ELSE <<>>]
               IN  <<[index |-> i, data |-> rowData,
                      valid |-> validateRow(rowData, uploadType) = <<>>,
                      errors |-> validateRow(rowData, uploadType)]>>)
         \o CsvParseLines(headers, lines, uploadType, i + 1)

\* parseCSV
parseCSV(headers, lines) ==
    LET requiredHeaders == IF csvUpload.uploadType = "questions"
                           THEN {"question_type", "question_text", "required"}
                           ELSE {"name", "email"}
        parsed == CsvParseLines(headers, lines, csvUpload.uploadType, 1)
    IN  /\ csvUpload' =
               IF Len(lines) < 1
               THEN [csvUpload EXCEPT
                        !.validationErrors = <<"at least a header row and one data row">>]
               ELSE IF \E h \in requiredHeaders : ~Includes(headers, h)
               THEN [csvUpload EXCEPT !.validationErrors = <<"Missing required headers">>]
               ELSE [csvUpload EXCEPT !.parsedData = parsed,
                                      !.validationErrors = RowErrors(parsed)]
        /\ UNCHANGED <<serverVars, lookupVars, builderVars, requestVars, studentUpload,
                       importReport,
                       csvReport>>

\* the objects handleUpload sends: one for each valid row
processedData(upload) ==
    LET validRows == SelectSeq(upload.parsedData, LAMBDA row : row.valid)
        processedRow(data) ==
            IF upload.uploadType = "questions"
            THEN [type |-> Field(data, "question_type"),
                  question |-> Field(data, "question_text"),
                  required |-> ToLowerCase(Field(data, "required")) \in {<<"t", "r", "u", "e">>, <<"1">>},
                  options |-> IF Field(data, "options") # <<>>
                              THEN Arr(ParseBcInput(Field(data, "options"))) ELSE Undef,
                  scale |-> IF Field(data, "scale") # <<>>
                            THEN parseInt(Field(data, "scale")) ELSE Undef]
            ELSE [name |-> Field(data, "name"), email |-> Field(data, "email"),
                  department |-> Field(data, "department"), phone |-> Field(data, "phone")]
    IN  [i \in 1..Len(validRows) |-> processedRow(validRows[i].data)]

\* what handleUpload tells its caller: the toast and the summary
CsvReport(title, upload) ==
    [title |-> title,
     summary |-> [total |-> Len(upload.parsedData),
                  valid |-> Len(processedData(upload)),
                  invalid |-> Len(upload.parsedData) - Len(processedData(upload))],
     data |-> processedData(upload)]

\* the options the builder gives a question of type sls
slsOptions ==
    <<<<"S", "t", "r", "o", "n", "g", "l", "y", " ", "A", "g", "r", "e", "e">>,
      <<"A", "g", "r", "e", "e">>,
      <<"D", "i", "s", "a", "g", "r", "e", "e">>,
      <<"S", "t", "r", "o", "n", "g", "l", "y", " ", "D", "i", "s", "a", "g", "r", "e", "e">>>>

\* the questions of the stored form
StoredQuestions(id) ==
    IF forms[id] # NoRow /\ Truthy(forms[id].questions) THEN forms[id].questions.v ELSE <<>>

\* handleUpload of CSVUploader, by the user u; its button is disabled while
\* validationErrors is not empty
handleUploadCSV(u) ==
    /\ csvUpload.validationErrors = <<>>
    /\ IF csvUpload.parsedData = <<>>
       THEN /\ csvReport' = [title |-> "Cannot Upload"]
            /\ UNCHANGED <<forms, csvUpload>>
       ELSE IF csvUpload.uploadType = "questions" /\ csvUpload.formId = Undef
       THEN /\ csvReport' = [title |-> "Cannot Upload Questions"]
            /\ UNCHANGED <<forms, csvUpload>>
       ELSE IF csvUpload.uploadType = "questions"
       THEN LET response == BulkImportQuestionsResult(u, csvUpload.formId.v,
                                                      Arr(processedData(csvUpload)))
            IN  /\ Len(StoredQuestions(csvUpload.formId.v)) + Len(processedData(csvUpload))
                       <= MaxCsvQuestions
                /\ forms' = response.forms
                /\ IF response.code = 200
                   THEN /\ csvReport' = CsvReport("Upload Successful", csvUpload)
                        /\ csvUpload' = NewCsvUploader(csvUpload.uploadType, csvUpload.formId)
                   ELSE /\ csvReport' = [title |-> "Upload Failed"]
                        /\ UNCHANGED csvUpload
       ELSE /\ csvReport' = CsvReport("Upload Successful", csvUpload)
            /\ csvUpload' = NewCsvUploader(csvUpload.uploadType, csvUpload.formId)
            /\ UNCHANGED forms
    /\ UNCHANGED <<events, attendees, now, captured, lookupVars, builderVars,
                   requestVars, studentUpload, importReport>>

\* the tables read from the CSV texts tried
CsvFiles ==
    LET QuestionHeaders ==
            <<"question_type", "question_text", "required", "options", "scale">>
        ScaleCells ==
            {<<"3">>, <<"5">>, <<"7">>, <<"1", "0">>, <<"4">>, <<"0">>, <<"5", "x">>, <<"a", "b", "c">>,
             <<"3", ".", "5">>, <<"0", "x", "5">>, <<"-", "5">>, << >>}
        QuestionLines ==
            {<<<<"t", "e", "x", "t">>, <<"Q">>, <<"t", "r", "u", "e">>>>,
             <<<<"s", "l", "s">>, <<"Q">>, <<"f", "a", "l", "s", "e">>>>,
             <<<<"s", "l", "s">>, <<"Q">>, <<"t", "r", "u", "e">>, <<"Y", "e", "s", ",", "N", "o">>>>,
             <<<<"m", "u", "l", "t", "i", "p", "l", "e", "C", "h", "o", "i", "c", "e">>, <<"Q">>, <<"1">>, <<"a", ",", " ", "b">>>>,
             <<<<"r", "a", "d", "i", "o">>, <<"Q">>, <<"0">>>>,
             <<<<"e", "s", "s", "a", "y">>, <<"Q">>, <<"t", "r", "u", "e">>>>,
             <<<<"t", "e", "x", "t">>, <<"Q">>, <<"y", "e", "s">>>>,
             << >>} \cup
            {<<<<"r", "a", "t", "i", "n", "g">>, <<"Q">>, <<"t", "r", "u", "e">>, << >>, scale>> : scale \in ScaleCells}
    IN  {[headers |-> QuestionHeaders, lines |-> <<line>>] : line \in QuestionLines}
        \cup {[headers |-> QuestionHeaders,
               lines |-> <<<<<<"t", "e", "x", "t">>, <<"Q">>, <<"t", "r", "u", "e">>>>,
                           <<<<"r", "a", "t", "i", "n", "g">>, <<"Q">>, <<"t", "r", "u", "e">>, << >>, <<"4">>>>>>],
              [headers |-> QuestionHeaders, lines |-> << >>],
              [headers |-> <<"question_type", "question_text">>,
               lines |-> <<<<<<"t", "e", "x", "t">>, <<"Q">>>>>>],
              [headers |-> <<"name", "email", "department">>,
               lines |-> <<<<<<"A", "n", "n">>, <<"a", "@", "b", ".", "c">>, <<"I", "T">>>>, <<<<"B", "o", "b">>, <<"b", "o", "b">>>>>>],
              [headers |-> <<"name", "email">>, lines |-> <<<<<<"A", "n", "n">>, <<"a", "@", "b", ".", "c">>>>>>]}

(***************************************************************************)
(* The form builder page: questions, sections and their numbering          *)
(***************************************************************************)
MaxIds == 4
MaxBuilderQuestions == 2
MaxSections == 3

\* ids: 'default', Date.now().toString(), 'child-identity-' + Date.now(),
\* 'bc-input-' + Date.now(), ids of persisted content, and no id at all
DefaultSectionId == [kind |-> "default", n |-> 0]
NoSection == [kind |-> "none", n |-> 0]
NewId(idKind, n) == [kind |-> idKind, n |-> n]
DefaultSection == [id |-> DefaultSectionId, order |-> 0]

\* q.sectionId === section.id || (!q.sectionId && section.id === 'default')
InSection(q, sectionId) ==
    q.sectionId = sectionId \/ (q.sectionId = NoSection /\ sectionId = DefaultSectionId)

getQuestionsBySection(sectionId) == SelectSeq(questions, LAMBDA q : InSection(q, sectionId))

\* Array.prototype.findIndex on the questionId, 1-based, 0 when absent
FindIndex(list, questionId) ==
    IF \E i \in 1..Len(list) : list[i].questionId = questionId
    THEN CHOOSE i \in 1..Len(list) :
             /\ list[i].questionId = questionId
             /\ \A j \in 1..(i - 1) : list[j].questionId # questionId
    ELSE 0

RECURSIVE InsertByOrder(_, _)
InsertByOrder(sorted, section) ==
    IF sorted = <<>> THEN <<section>>
    ELSE IF Head(sorted).order <= section.order
    THEN <<Head(sorted)>> \o InsertByOrder(Tail(sorted), section)
    ELSE <<section>> \o sorted

RECURSIVE SortFrom(_, _)
SortFrom(sorted, rest) ==
    IF rest = <<>> THEN sorted
    ELSE SortFrom(InsertByOrder(sorted, Head(rest)), Tail(rest))

\* [...sections].sort((a, b) => (a.order || 0) - (b.order || 0)), a stable sort
SortedSections(secs) == SortFrom(<<>>, secs)

\* one iteration of the numbering loops: number the question unless processed
RenumberStep(st, question) ==
    LET questionIndex == FindIndex(st.renumberedQuestions, question.questionId) IN
    IF questionIndex = 0 \/ question.questionId \in st.processedQuestionIds
    THEN st
    ELSE [renumberedQuestions |->
              [st.renumberedQuestions EXCEPT ![questionIndex].questionNo = st.currentNumber],
          processedQuestionIds |-> st.processedQuestionIds \cup {question.questionId},
          currentNumber |-> st.currentNumber + 1]

RECURSIVE RenumberEach(_, _)
RenumberEach(st, list) ==
    IF list = <<>> THEN st
    ELSE RenumberEach(RenumberStep(st, Head(list)), Tail(list))

RECURSIVE RenumberSections(_, _, _)
RenumberSections(st, sortedSections, questionList) ==
    IF sortedSections = <<>> THEN st
    ELSE RenumberSections(
             RenumberEach(st, SelectSeq(questionList,
                                        LAMBDA q : InSection(q, Head(sortedSections).id))),
             Tail(sortedSections), questionList)

\* a numbering that leaves out the questions of no known section
renumberKnownSections(questionList, secs) ==
    RenumberSections([renumberedQuestions |-> questionList,
                      processedQuestionIds |-> {}, currentNumber |-> 1],
                     SortedSections(secs), questionList).renumberedQuestions
renumberAllQuestions(questionList, secs) ==
    LET st0 == [renumberedQuestions |-> questionList,
                processedQuestionIds |-> {}, currentNumber |-> 1]
        st1 == IF Len(secs) > 0
               THEN RenumberSections(st0, SortedSections(secs), questionList)
               ELSE st0
    IN  RenumberEach(st1, questionList).renumberedQuestions

\* the effect on [sections]
SectionsEffect(qs, secs) ==
    IF Len(secs) > 0 /\ Len(qs) > 0 THEN renumberAllQuestions(qs, secs) ELSE qs

\* the effect on [watchedFormType, sections] has an identity section to create
NeedsIdentity(secs, type) ==
    /\ type = "parents_survey"
    /\ ~\E i \in 1..Len(secs) : secs[i].id.kind = "child-identity"

\* an identity section that sorts after the sections there are
IdentitySectionAtEnd(n) == [id |-> NewId("child-identity", n), order |-> MaxSections]
IdentitySection(n) == [id |-> NewId("child-identity", n), order |-> -1]

BcQuestion(n) ==
    [questionId |-> NewId("bc-input", n), questionNo |-> 1, type |-> "bcInput",
     required |-> TRUE, sectionId |-> NewId("child-identity", n)]

\* The state once the effects of a render have run and settled.  Both effects
\* see the questions and sections of the render; the identity effect numbers
\* with the sections of that render, and the sections it sets run the effect
\* on [sections] again.
AfterRender(qs, secs, type, n, sectionsChanged) ==
    IF NeedsIdentity(secs, type)
    THEN LET newSections == <<IdentitySection(n)>> \o secs
             newQuestions == renumberAllQuestions(<<BcQuestion(n)>> \o qs, secs)
         IN  [questions |-> SectionsEffect(newQuestions, newSections),
              sections |-> newSections, nextId |-> n + 1]
    ELSE [questions |-> IF sectionsChanged THEN SectionsEffect(qs, secs) ELSE qs,
          sections |-> secs, nextId |-> n]

\* the builder takes the state r, within the bounds of the model
Render(r) ==
    /\ Len(r.questions) <= MaxBuilderQuestions
    /\ Len(r.sections) <= MaxSections
    /\ r.nextId <= MaxIds + 1
    /\ questions' = r.questions
    /\ sections' = r.sections
    /\ nextId' = r.nextId

BuilderTypes == {"text"}

addQuestion(type, targetSectionId) ==
    LET sectionId == IF targetSectionId # NoSection THEN targetSectionId
                     ELSE IF Len(sections) > 0 THEN sections[1].id
                     ELSE DefaultSectionId
        newQuestion == [questionId |-> NewId("ts", nextId),
                        questionNo |-> Len(questions) + 1,
                        type |-> type, required |-> (type = "sls"),
                        sectionId |-> sectionId]
    IN  /\ ~loading
        /\ nextId <= MaxIds
        /\ Render([questions |-> renumberAllQuestions(Append(questions, newQuestion), sections),
                   sections |-> sections, nextId |-> nextId + 1])
        /\ UNCHANGED <<serverVars, lookupVars, importVars, requestVars, formType, loading>>

deleteQuestion(id) ==
    /\ ~loading
    /\ Render([questions |-> renumberAllQuestions(
                                 SelectSeq(questions, LAMBDA q : q.questionId # id), sections),
               sections |-> sections, nextId |-> nextId])
    /\ UNCHANGED <<serverVars, lookupVars, importVars, requestVars, formType, loading>>

copyQuestion(id) ==
    LET questionIndex == FindIndex(questions, id)
        newQuestion == [questions[questionIndex] EXCEPT !.questionId = NewId("ts", nextId)]
        newQuestions == SubSeq(questions, 1, questionIndex) \o <<newQuestion>>
                        \o SubSeq(questions, questionIndex + 1, Len(questions))
    IN  /\ ~loading
        /\ nextId <= MaxIds
        /\ IF questionIndex = 0
           THEN UNCHANGED builderVars
           ELSE /\ Render([questions |-> renumberAllQuestions(newQuestions, sections),
                           sections |-> sections, nextId |-> nextId + 1])
                /\ UNCHANGED <<formType, loading>>
        /\ UNCHANGED <<serverVars, lookupVars, importVars, requestVars>>

addSection ==
    LET newSection == [id |-> NewId("ts", nextId), order |-> Len(sections)] IN
    /\ ~loading
    /\ nextId <= MaxIds
    /\ Render(AfterRender(questions, Append(sections, newSection), formType,
                          nextId + 1, TRUE))
    /\ UNCHANGED <<serverVars, lookupVars, importVars, requestVars, formType, loading>>

\* sections.find(s => s.id !== id): the first remaining section
RemainingSection(id) ==
    sections[CHOOSE i \in 1..Len(sections) :
                 /\ sections[i].id # id
                 /\ \A j \in 1..(i - 1) : sections[j].id = id]

deleteSection(id) ==
    LET updatedQuestions ==
            IF \E i \in 1..Len(sections) : sections[i].id # id
            THEN [i \in 1..Len(questions) |->
                     IF questions[i].sectionId = id
                     THEN [questions[i] EXCEPT !.sectionId = RemainingSection(id).id]
                     ELSE questions[i]]
            ELSE questions
    IN  /\ ~loading
        /\ IF Len(sections) <= 1
           THEN UNCHANGED <<questions, sections, nextId>>
           ELSE Render(AfterRender(updatedQuestions,
                                   SelectSeq(sections, LAMBDA sec : sec.id # id),
                                   formType, nextId, TRUE))
        /\ UNCHANGED <<serverVars, lookupVars, importVars, requestVars, formType, loading>>

moveQuestionToSection(questionId, targetSectionId) ==
    /\ ~loading
    /\ Render([questions |-> renumberAllQuestions(
                   [i \in 1..Len(questions) |->
                       IF questions[i].questionId = questionId
                       THEN [questions[i] EXCEPT !.sectionId = targetSectionId]
                       ELSE questions[i]], sections),
               sections |-> sections, nextId |-> nextId])
    /\ UNCHANGED <<serverVars, lookupVars, importVars, requestVars, formType, loading>>

\* Array.prototype.splice: remove the element at a 0-based index, insert at one
RemoveAt(list, index) == SubSeq(list, 1, index) \o SubSeq(list, index + 2, Len(list))
InsertAt(list, index, x) ==
    SubSeq(list, 1, index) \o <<x>> \o SubSeq(list, index + 1, Len(list))

NoDestination == [sectionId |-> NoSection, index |-> -1]

\* the question list that a drop sets: the drop of the question at
\* source.index of a section's list at destination.index of a section's list
DroppedQuestions(sourceSectionId, sourceIndex, destination) ==
    LET sourceQuestions == getQuestionsBySection(sourceSectionId)
        draggedQuestion == sourceQuestions[sourceIndex + 1]
        sectionQuestions == InsertAt(RemoveAt(sourceQuestions, sourceIndex),
                                     destination.index, draggedQuestion)
        reordered ==
            [i \in 1..Len(questions) |->
                IF InSection(questions[i], sourceSectionId)
                THEN LET questionIndex == FindIndex(sectionQuestions, questions[i].questionId)
                     IN  IF questionIndex > 0 THEN sectionQuestions[questionIndex]
                         ELSE questions[i]
                ELSE questions[i]]
        moved ==
            [i \in 1..Len(questions) |->
                IF questions[i].questionId = draggedQuestion.questionId
                THEN [questions[i] EXCEPT !.sectionId = destination.sectionId]
                ELSE questions[i]]
    IN  renumberAllQuestions(IF sourceSectionId = destination.sectionId
                             THEN reordered ELSE moved, sections)

\* handleDragEnd; destination is NoDestination for a drop outside every list
handleDragEnd(sourceSectionId, sourceIndex, destination) ==
    /\ ~loading
    /\ IF destination = NoDestination
       THEN UNCHANGED <<questions, sections, nextId>>
       ELSE Render([questions |-> DroppedQuestions(sourceSectionId, sourceIndex,
                                                   destination),
                    sections |-> sections, nextId |-> nextId])
    /\ UNCHANGED <<serverVars, lookupVars, importVars, requestVars, formType, loading>>

\* the user picks a form type on the basics tab
SetFormType(type) ==
    /\ ~loading
    /\ formType' = type
    /\ Render(AfterRender(questions, sections, type, nextId, FALSE))
    /\ UNCHANGED <<serverVars, lookupVars, importVars, requestVars, loading>>

\* persisted forms opened for editing
OldQuestion(n, no, sectionId) ==
    [questionId |-> NewId("old", n), questionNo |-> no, type |-> "text",
     required |-> FALSE, sectionId |-> sectionId]
OldSection(n, order) == [id |-> NewId("old", n), order |-> order]

PersistedForms ==
    {[formType |-> "general",
      questions |-> Arr(<<OldQuestion(1, 7, NewId("old", 8)),
                          OldQuestion(2, 0, NewId("old", 9))>>),
      sections |-> Arr(<<DefaultSection, OldSection(8, 1)>>)],
     [formType |-> "",
      questions |-> Arr(<<OldQuestion(1, 2, NoSection), OldQuestion(2, 2, DefaultSectionId)>>),
      sections |-> Arr(<<>>)],
     [formType |-> "parents_survey",
      questions |-> Arr(<<OldQuestion(1, 1, DefaultSectionId)>>),
      sections |-> Null],
     [formType |-> "general", questions |-> Null, sections |-> Arr(<<OldSection(8, 0)>>)]}

\* the response of GET /api/forms/:id arrives in edit mode
LoadForm(formData) ==
    LET normalizedQuestions ==
            [i \in 1..Len(formData.questions.v) |->
                LET q == formData.questions.v[i] IN
                [q EXCEPT !.questionNo = IF q.questionNo = 0 THEN i ELSE q.questionNo,
                          !.required = IF q.type = "sls" THEN TRUE ELSE q.required]]
        loadedQuestions ==
            IF Truthy(formData.questions)
            THEN renumberAllQuestions(normalizedQuestions, sections)
            ELSE questions
        withDefault ==
            [i \in 1..Len(questions) |->
                IF questions[i].sectionId = NoSection
                THEN [questions[i] EXCEPT !.sectionId = DefaultSectionId]
                ELSE questions[i]]
    IN  /\ loading
        /\ loading' = FALSE
        /\ formType' = formData.formType
        /\ Render(IF Truthy(formData.sections)
                  THEN AfterRender(loadedQuestions, formData.sections.v,
                                   formData.formType, nextId, TRUE)
                  ELSE IF Len(questions) > 0
                  THEN AfterRender(withDefault, <<DefaultSection>>,
                                   formData.formType, nextId, TRUE)
                  ELSE AfterRender(loadedQuestions, sections,
                                   formData.formType, nextId, FALSE))
        /\ UNCHANGED <<serverVars, lookupVars, importVars, requestVars>>

(***************************************************************************)
(* Initial state: an empty database, a builder page just mounted           *)
(***************************************************************************)
Init ==
    /\ forms = [id \in FormIds |-> NoRow]
    /\ events = [id \in EventIds |-> NoRow]
    /\ attendees = <<>>
    /\ now = 1
    /\ captured = [id \in FormIds |-> Undef]
    /\ students = {}
    /\ lookup = Null
    /\ respondent = NewRespondent
    /\ questions = <<>>
    /\ sections = <<DefaultSection>>
    /\ formType = ""
    /\ nextId = 1
    /\ loading = FALSE
    /\ studentUpload = NewUploader
    /\ importReport = Null
    /\ csvUpload = NewCsvUploader("questions", Undef)
    /\ csvReport = Null
    /\ inflight = Null
    /\ responses = {}

Next ==
    \/ \E u \in Creators, id \in FormIds, b \in CreateBodies : CreateForm(u, id, b)
    \/ \E u \in Users, id \in FormIds, b \in UpdateBodies : PutForm(u, id, b)
    \/ \E u \in Users, id \in FormIds : PreparePreview(u, id)
    \/ \E u \in Users, id \in FormIds : DeleteForm(u, id)
    \/ \E u \in Users, id \in FormIds, qs \in ImportBodies : BulkImportQuestions(u, id, qs)
    \/ \E u \in Users, id \in FormIds, p \in IconPaths : UpdateIcon(u, id, p)
    \/ Tick

\* the form lifecycle
Spec == Init /\ [][Next]_vars

NextPublic ==
    \/ \E u \in Creators, id \in FormIds, b \in PublicCreateBodies : CreateForm(u, id, b)
    \/ \E u \in Users, id \in FormIds, b \in PublicUpdateBodies : PutForm(u, id, b)
    \/ \E u \in Users, id \in FormIds : PreparePreview(u, id)
    \/ \E u \in Users, id \in FormIds : DeleteForm(u, id)

\* forms under several slugs, as the public route sees them
SpecPublic == Init /\ [][NextPublic]_vars

NextAccess ==
    \/ \E u \in Creators, id \in FormIds, b \in AccessCreateBodies : CreateForm(u, id, b)
    \/ \E u \in Users, id \in FormIds, b \in AccessUpdateBodies : PutForm(u, id, b)
    \/ \E u \in Users, id \in FormIds : PreparePreview(u, id)
    \/ \E u \in Users, id \in FormIds : DeleteForm(u, id)
    \/ \E u \in Users, id \in FormIds, qs \in ImportBodies : BulkImportQuestions(u, id, qs)
    \/ \E u \in Users, id \in FormIds, p \in IconPaths : UpdateIcon(u, id, p)
    \/ \E u \in Creators, id \in EventIds, t \in EventTitles : CreateEvent(u, id, t)
    \/ \E u \in Users, id \in EventIds, t \in EventTitles : UpdateEvent(u, id, t)
    \/ \E u \in Users, id \in EventIds : DeleteEvent(u, id)
    \/ \E u \in Users, id \in EventIds, w \in AttendeeBodies : AddAttendee(u, id, w)

\* forms and events under requests of their creator and of another user
SpecAccess == Init /\ [][NextAccess]_vars

InitLookup ==
    /\ forms \in [FormIds -> {NoRow} \cup LookupForms]
    /\ events = [id \in EventIds |-> NoRow]
    /\ attendees = <<>>
    /\ now = 1
    /\ captured = [id \in FormIds |-> Undef]
    /\ students \in LookupStores
    /\ lookup = Null
    /\ respondent = NewRespondent
    /\ questions = <<>>
    /\ sections = <<DefaultSection>>
    /\ formType = ""
    /\ nextId = 1
    /\ loading = FALSE
    /\ studentUpload = NewUploader
    /\ importReport = Null
    /\ csvUpload = NewCsvUploader("questions", Undef)
    /\ csvReport = Null
    /\ inflight = Null
    /\ responses = {}

NextLookup ==
    \E bcNumbers \in BcNumbersBodies, formId \in FormIdBodies : LookupBC(bcNumbers, formId)

\* lookups against a stored form and student store
SpecLookup == InitLookup /\ [][NextLookup]_vars

NextRespondent ==
    \/ \E bcInput \in BcInputs, formId \in FormIdBodies, ok \in BOOLEAN :
           handleLookup(bcInput, formId, ok)
    \/ \E bc \in BCsOf(respondent.foundStudents) : handleDeleteChild(bc)
    \/ ClearDuplicateCard

\* a respondent's lookups against a stored form and student store
SpecRespondent == InitLookup /\ [][NextRespondent]_vars

NextImport ==
    \/ \E file \in ImportFiles : parseDataRows(file.headers, file.rows)
    \/ \E failing \in SUBSET (1..2) : handleUpload(failing)
    \/ \E body \in BulkBodies, failing \in SUBSET (1..2) : PostStudentsBulk(body, failing)

\* student imports through the dialog and through the endpoint
SpecImport == Init /\ [][NextImport]_vars

\* the CSV dialog opens for an upload type, with or without a form of alice
\* a form of alice and two calls of alice on it, neither started
InitConcurrent ==
    /\ \E b \in CreateBodies, c1 \in ConcurrentCalls, c2 \in ConcurrentCalls :
           /\ b.title # Undef
           /\ forms = [id \in FormIds |-> NewFormRow("alice", b)]
           /\ inflight =
                  [initial |-> NewFormRow("alice", b),
                   calls |-> <<[call |-> c1, phase |-> "new", existing |-> NoRow],
                               [call |-> c2, phase |-> "new", existing |-> NoRow]>>]
    /\ events = [id \in EventIds |-> NoRow]
    /\ attendees = <<>>
    /\ now = 1
    /\ captured = [id \in FormIds |-> Undef]
    /\ students = {}
    /\ lookup = Null
    /\ respondent = NewRespondent
    /\ questions = <<>>
    /\ sections = <<DefaultSection>>
    /\ formType = ""
    /\ nextId = 1
    /\ loading = FALSE
    /\ studentUpload = NewUploader
    /\ importReport = Null
    /\ csvUpload = NewCsvUploader("questions", Undef)
    /\ csvReport = Null
    /\ responses = {}

NextConcurrent ==
    \/ \E i \in 1..2 : ReadForm("f1", i)
    \/ \E i \in 1..2 : WriteForm("f1", i)

SpecConcurrent == InitConcurrent /\ [][NextConcurrent]_vars

\* forms, their responses and their deletion
NextResponses ==
    \/ \E u \in Creators, id \in FormIds, b \in CreateBodies : CreateForm(u, id, b)
    \/ \E u \in Users, id \in FormIds, b \in UpdateBodies : PutForm(u, id, b)
    \/ \E id \in FormIds, answers \in {Undef, Arr(<<"a1">>), Arr(<<"a2">>)} :
           SubmitResponse(id, answers)
    \/ \E u \in Users, id \in FormIds : DeleteForm(u, id)

SpecResponses == Init /\ [][NextResponses]_vars

InitCsv ==
    /\ forms = [id \in FormIds |-> NewFormRow("alice", [EmptyBody EXCEPT !.title = Str("t")])]
    /\ events = [id \in EventIds |-> NoRow]
    /\ attendees = <<>>
    /\ now = 1
    /\ captured = [id \in FormIds |-> Undef]
    /\ students = {}
    /\ lookup = Null
    /\ respondent = NewRespondent
    /\ questions = <<>>
    /\ sections = <<DefaultSection>>
    /\ formType = ""
    /\ nextId = 1
    /\ loading = FALSE
    /\ studentUpload = NewUploader
    /\ importReport = Null
    /\ csvUpload \in {NewCsvUploader(uploadType, formId) :
                          uploadType \in {"questions", "respondents"},
                          formId \in FormIdBodies}
    /\ csvReport = Null
    /\ inflight = Null
    /\ responses = {}

NextCsv ==
    \/ \E file \in CsvFiles : parseCSV(file.headers, file.lines)
    \/ \E u \in Users : handleUploadCSV(u)

\* question and respondent imports through the CSV dialog
SpecCsv == InitCsv /\ [][NextCsv]_vars

\* the builder opens on a new form or, loading, on a stored one
InitBuilder ==
    /\ forms = [id \in FormIds |-> NoRow]
    /\ events = [id \in EventIds |-> NoRow]
    /\ attendees = <<>>
    /\ now = 1
    /\ captured = [id \in FormIds |-> Undef]
    /\ students = {}
    /\ lookup = Null
    /\ respondent = NewRespondent
    /\ questions = <<>>
    /\ sections = <<DefaultSection>>
    /\ formType = ""
    /\ nextId = 1
    /\ loading \in BOOLEAN
    /\ studentUpload = NewUploader
    /\ importReport = Null
    /\ csvUpload = NewCsvUploader("questions", Undef)
    /\ csvReport = Null
    /\ inflight = Null
    /\ responses = {}

SectionIds == {sections[i].id : i \in 1..Len(sections)}
QuestionIds == {questions[i].questionId : i \in 1..Len(questions)}

NextBuilder ==
    \/ \E formData \in PersistedForms : LoadForm(formData)
    \/ \E type \in {"general", "parents_survey"} : SetFormType(type)
    \/ \E type \in BuilderTypes, target \in SectionIds \cup {NoSection} :
           addQuestion(type, target)
    \/ \E id \in QuestionIds : deleteQuestion(id)
    \/ \E id \in QuestionIds : copyQuestion(id)
    \/ \E id \in QuestionIds, target \in SectionIds : moveQuestionToSection(id, target)
    \/ \E source \in SectionIds :
           \E index \in 0..(Len(getQuestionsBySection(source)) - 1) :
               \/ handleDragEnd(source, index, NoDestination)
               \/ \E target \in SectionIds :
                      \E to \in 0..(Len(getQuestionsBySection(target)) - 1) :
                          handleDragEnd(source, index, [sectionId |-> target, index |-> to])
    \/ addSection
    \/ \E id \in SectionIds : deleteSection(id)

SpecBuilder == InitBuilder /\ [][NextBuilder]_vars

(***************************************************************************)
(* Properties                                                              *)
(***************************************************************************)
\* a publish request of the form's creator that the handler accepts
OwnerPublish(u, id, b) ==
    /\ forms[id] # NoRow
    /\ forms[id].createdBy = u
    /\ ~b.invalid
    /\ PutForm(u, id, b)

C2_PublishUsesCapturedContent ==
    [][\A u \in Users, id \in FormIds, b \in PublishBodies :
          OwnerPublish(u, id, b) =>
              IF captured[id] # Undef
              THEN /\ forms'[id].publishedQuestions = captured[id].questions
                   /\ forms'[id].publishedSections = captured[id].sections
              ELSE /\ forms'[id].publishedQuestions = forms[id].questions
                   /\ forms'[id].publishedSections = forms[id].sections]_vars

\* C3: only a publish turns a form active, and a created form is a draft.
C3_OnlyPublishActivates ==
    [][\A id \in FormIds :
          /\ (forms[id] = NoRow /\ forms'[id] # NoRow) => forms'[id].status = "draft"
          /\ ( /\ forms'[id] # NoRow
               /\ forms'[id].status = "active"
               /\ (forms[id] = NoRow \/ forms[id].status # "active") )
             => \E u \in Users, b \in PublishBodies : OwnerPublish(u, id, b)]_vars

\* C4: the public endpoint answers with the published snapshot only: what it
\* sends for a form is the content of publishedQuestions and publishedSections,
\* never the working or the preview content.
C4_PublicServesPublishedOnly ==
    \A url \in RequestSlugs :
        LET form == GetFormByUrl(url) IN
        form # NoRow =>
            /\ PublicFormResponse(url).questions = ListOf(form.publishedQuestions)
            /\ PublicFormResponse(url).sections = ListOf(form.publishedSections)

\* what a request of user u gets for a form or event u did not create
C5_FormRequestsRejected(u, id) ==
    /\ \A b \in UpdateBodies \cup AccessUpdateBodies :
           PutFormResult(u, id, b) = Reply(403, forms)
    /\ PreparePreviewResult(u, id) = Reply(403, forms)
    /\ DeleteFormResult(u, id) = Reply(403, forms)
    /\ \A qs \in ImportBodies : BulkImportQuestionsResult(u, id, qs) = Reply(403, forms)
    /\ \A p \in IconPaths :
           UpdateIconResult(u, id, p) = Reply(IF p = <<>> THEN 400 ELSE 403, forms)

C5_EventRequestsRejected(u, id) ==
    /\ \A t \in EventTitles : UpdateEventResult(u, id, t) = EventReply(403, events, attendees)
    /\ DeleteEventResult(u, id) = EventReply(403, events, attendees)
    /\ \A w \in AttendeeBodies : AddAttendeeResult(u, id, w) = EventReply(403, events, attendees)

\* C5: update, publish, prepare-preview, delete, bulk question import and icon
\* update of a form, and update, delete and attendee add of an event, asked by
\* a user who is not the creator are rejected and leave the form and the event
\* (and its attendees) unchanged.
C5_NonCreatorRejected ==
    \A u \in Users :
        /\ \A id \in FormIds :
               (forms[id] # NoRow /\ forms[id].createdBy # u) => C5_FormRequestsRejected(u, id)
        /\ \A id \in EventIds :
               (events[id] # NoRow /\ events[id].createdBy # u) => C5_EventRequestsRejected(u, id)

\* a published form with content and an event with an attendee, both of alice,
\* under a request of bob
C5_Witness ==
    /\ forms["f1"] # NoRow
    /\ forms["f1"].createdBy = "alice"
    /\ forms["f1"].status = "active"
    /\ forms["f1"].questions = Arr(<<"q1">>)
    /\ events["e1"] # NoRow
    /\ events["e1"].createdBy = "alice"
    /\ Len(attendees) > 0
    /\ PutFormResult("bob", "f1", [EmptyBody EXCEPT !.status = Str("active")]).code = 403
    /\ DeleteEventResult("bob", "e1").code = 403

\* C8: the public route never resolves a reserved slug, whatever its case and
\* whether or not a form is stored under it.
C8_ReservedSlugNotResolved ==
    \A url \in RequestSlugs :
        Includes(RESERVED_SLUGS, ToLowerCase(url)) => PublicFormRoute(url).page = "NotFound"

\* a form with content is stored under "Api": the endpoint serves it, the route does not
C8_Witness ==
    /\ GetFormByUrl(ApiUpperSlug) # NoRow
    /\ PublicFormResponse(ApiUpperSlug).code = 200
    /\ PublicFormResponse(ApiUpperSlug).questions # <<>>
    /\ PublicFormRoute(ApiUpperSlug).page = "NotFound"

\* the identifiers of a lookup request: its entries, trimmed, that are not blank
C9_Identifiers ==
    {Trim(lookup.bcNumbers.v[i]) : i \in 1..Len(lookup.bcNumbers.v)} \ {<<>>}

C9_InFound(bc) ==
    \E i \in 1..Len(lookup.response.foundStudents) :
        lookup.response.foundStudents[i].student_BC = bc

C9_InNotSelected(bc) ==
    /\ lookup.response.notSelectedStudents # Undef
    /\ \E i \in 1..Len(lookup.response.notSelectedStudents.v) :
           lookup.response.notSelectedStudents.v[i].student_BC = bc

C9_InNotFound(bc) == Includes(lookup.response.notFoundBCNumbers, bc)

\* C9: the lookup places every submitted identifier in exactly one of found,
\* not-selected and not-found.
C9_ExactlyOneResultSet ==
    (lookup # Null /\ lookup.response.code = 200) =>
        \A bc \in C9_Identifiers :
            /\ C9_InFound(bc) \/ C9_InNotSelected(bc) \/ C9_InNotFound(bc)
            /\ ~(C9_InFound(bc) /\ C9_InNotSelected(bc))
            /\ ~(C9_InFound(bc) /\ C9_InNotFound(bc))
            /\ ~(C9_InNotSelected(bc) /\ C9_InNotFound(bc))

\* a lookup of a selected and an unselected student, and one of an unknown identifier
C9_Witness ==
    /\ lookup # Null
    /\ lookup.response.code = 200
    /\ Len(lookup.bcNumbers.v) = 2
    /\ \/ C9_InFound(BC2) /\ C9_InNotSelected(BC1)
       \/ C9_InNotFound(BC3) /\ C9_InNotSelected(BC1)

\* the form type and the allow-list of the form a lookup names
C10_Restricted ==
    /\ lookup.formId # Undef
    /\ GetForm(lookup.formId.v) # NoRow
    /\ GetForm(lookup.formId.v).formType = "parents_survey"
    /\ GetForm(lookup.formId.v).settings # Null
    /\ GetForm(lookup.formId.v).settings.selectedRespondents # <<>>

\* C10: for a parents_survey form with a non-empty allow-list an existing
\* student is found iff its identifier is in the allow-list and not-selected
\* otherwise; for any other form, or an empty allow-list, every existing
\* student is found.
C10_AllowListOnlyForParentsSurvey ==
    (lookup # Null /\ lookup.response.code = 200) =>
        \A bc \in C9_Identifiers :
            (\E st \in students : st.student_BC = bc) =>
                IF C10_Restricted
                THEN LET allowed == Includes(GetForm(lookup.formId.v).settings.selectedRespondents, bc)
                     IN  /\ C9_InFound(bc) <=> allowed
                         /\ C9_InNotSelected(bc) <=> ~allowed
                ELSE C9_InFound(bc) /\ ~C9_InNotSelected(bc)

\* a survey form with an allow-list that does not hold a looked-up student
C10_Witness ==
    /\ lookup # Null
    /\ lookup.response.code = 200
    /\ lookup.formId = Str("f1")
    /\ forms["f1"] # NoRow
    /\ forms["f1"].formType = "survey"
    /\ forms["f1"].settings # Null
    /\ forms["f1"].settings.selectedRespondents = <<BC1>>
    /\ C9_InFound(BC2)

\* C6: the question numbers are exactly 1..n, with no gap and no duplicate,
\* whatever builder operations were applied, questions of no known section
\* included.
C6_NumbersAreOneToN ==
    {questions[i].questionNo : i \in 1..Len(questions)} = 1..Len(questions)

\* numbered questions, the last of them in no known section, after an operation
C6_Witness ==
    /\ ~loading
    /\ nextId > 1
    /\ Len(questions) = MaxBuilderQuestions
    /\ \E i \in 1..Len(questions) :
           /\ questions[i].sectionId # NoSection
           /\ questions[i].sectionId \notin SectionIds
           /\ questions[i].questionNo = Len(questions)
    /\ \E i \in 1..Len(questions) :
           questions[i].sectionId \in SectionIds /\ questions[i].questionNo = 1

\* C7: numbers follow the order in which the builder displays the sections:
\* every question of a section displayed earlier has a smaller number than
\* every question of a section displayed later, and within a section the
\* numbers increase with the position of the question.
C7_NumbersFollowDisplayOrder ==
    /\ \A i, j \in 1..Len(sections) :
           i < j =>
               \A a \in 1..Len(getQuestionsBySection(sections[i].id)),
                  b \in 1..Len(getQuestionsBySection(sections[j].id)) :
                   getQuestionsBySection(sections[i].id)[a].questionNo
                       < getQuestionsBySection(sections[j].id)[b].questionNo
    /\ \A i \in 1..Len(sections) :
           \A a, b \in 1..Len(getQuestionsBySection(sections[i].id)) :
               a < b => getQuestionsBySection(sections[i].id)[a].questionNo
                            < getQuestionsBySection(sections[i].id)[b].questionNo

\* how often a student_BC occurs in a list of students
C11_Occurrences(list, bc) == Len(SelectSeq(list, LAMBDA st : st.student_BC = bc))

\* C11: an identifier submitted again while it is in the found set is flagged
\* as a duplicate, is not added to the found set again and is not listed as
\* not found.
C11_ResubmittedIsDuplicate ==
    [][\A bcInput \in BcInputs, formId \in FormIdBodies, ok \in BOOLEAN :
          handleLookup(bcInput, formId, ok) =>
              \A bc \in BCsOf(respondent.foundStudents) :
                  Includes(ParseBcInput(bcInput), bc) =>
                      /\ respondent'.duplicateCardBC = Str(bc)
                      /\ C11_Occurrences(respondent'.foundStudents, bc)
                             = C11_Occurrences(respondent.foundStudents, bc)
                      /\ ~Includes(respondent'.notFoundBCs, bc)]_vars

\* C28: no two entries of the respondent's found set have the same BC number.
C28_FoundSetHasNoDuplicates ==
    \A i \in 1..Len(respondent.foundStudents), j \in 1..Len(respondent.foundStudents) :
        respondent.foundStudents[i].student_BC = respondent.foundStudents[j].student_BC
            => i = j

(***************************************************************************)
(* Student import                                                          *)
(***************************************************************************)
\* the turns of the last import's commit loop that persisted their row
CommittedTurns ==
    IF importReport = Null \/ importReport.response.code # 200 THEN {}
    ELSE (1..Len(importReport.request)) \ importReport.failing

\* the last committed turn for its BC number
LastCommitted(i) ==
    /\ i \in CommittedTurns
    /\ \A j \in CommittedTurns :
           j > i => importReport.request[j].student_BC # importReport.request[i].student_BC

StoredWith(studentBC) == {st \in students : st.student_BC = studentBC}

\* C12: after an import, also a repeated one, each committed row's BC number is stored exactly once, and the stored student carries every value the row supplies.
C12_ReimportUpdatesInPlace ==
    \A i \in CommittedTurns :
        LastCommitted(i) =>
            /\ Cardinality(StoredWith(importReport.request[i].student_BC.v)) = 1
            /\ \A st \in StoredWith(importReport.request[i].student_BC.v) :
                   \A c \in StudentColumns \ {"student_BC"} :
                       importReport.request[i][c] # Undef => st[c] = importReport.request[i][c]

C12_Witness ==
    /\ importReport # Null
    /\ \E i \in CommittedTurns, j \in 1..Len(importReport.previous) :
           /\ importReport.request[i] = importReport.previous[j]
           /\ Cardinality(StoredWith(importReport.request[i].student_BC.v)) = 1

\* C13: a row without a BC number is classified invalid by the dialog, and no import leaves a stored student without a BC number.
C13_EmptyIdentifierNeverPersisted ==
    /\ \A i \in 1..Len(studentUpload.parsedData) :
           (\/ studentUpload.parsedData[i].data.student_BC = Undef
            \/ Trim(studentUpload.parsedData[i].data.student_BC.v) = <<>>)
               => ~studentUpload.parsedData[i].valid
    /\ \A st \in students : st.student_BC # <<>>

\* C14: in a commit where some turns fail, the response lists exactly the rows of the other turns, and each of them is stored.
C14_FailureSkipsOnlyThatRow ==
    (importReport # Null /\ importReport.response.code = 200) =>
        /\ Len(importReport.response.students) = Cardinality(CommittedTurns)
        /\ \A i \in CommittedTurns :
               \E st \in StoredWith(importReport.request[i].student_BC.v) :
                   \E k \in 1..Len(importReport.response.students) :
                       importReport.response.students[k].student_BC = st.student_BC

C14_Witness ==
    /\ importReport # Null
    /\ \E f \in importReport.failing, i \in CommittedTurns :
           /\ f < i
           /\ StoredWith(importReport.request[i].student_BC.v) # {}
           /\ StoredWith(importReport.request[f].student_BC.v) = {}


\* C16: the number of imported students that an import reports to its caller is the number of rows it persisted, also when some turns of the commit fail.
C16_ReportedCountIsCommitted ==
    (importReport # Null /\ importReport.response.code = 200) =>
        importReport.imported = Cardinality(CommittedTurns)


\* the typed columns that several headers name, with the headers of each
C17_Synonyms ==
    {[column |-> "student_BC", headers |-> caseLabels.identifier],
     [column |-> "centre", headers |-> caseLabels.centre],
     [column |-> "level", headers |-> caseLabels.level \cup caseLabels.grade],
     [column |-> "fullName", headers |-> caseLabels.fullName],
     [column |-> "dateOfBirth", headers |-> caseLabels.dateOfBirth],
     [column |-> "class", headers |-> caseLabels.class],
     [column |-> "guardianName", headers |-> caseLabels.guardianName],
     [column |-> "guardianEmail", headers |-> caseLabels.guardianEmail],
     [column |-> "guardianPhone", headers |-> caseLabels.guardianPhone],
     [column |-> "emergencyContact", headers |-> caseLabels.emergencyContact],
     [column |-> "emergencyPhone", headers |-> caseLabels.emergencyPhone],
     [column |-> "medicalInfo", headers |-> caseLabels.medicalInfo]}

\* the columns of a row that carry a value for a field
C17_Carrying(headers, row, synonyms) ==
    {j \in 1..Len(headers) :
        ToLowerCase(Trim(headers[j])) \in synonyms.headers /\ CellValue(row, j) # <<>>}

C17_FirstWins(headers, row, data) ==
    \A synonyms \in C17_Synonyms :
        \A first \in C17_Carrying(headers, row, synonyms) :
            (\A j \in C17_Carrying(headers, row, synonyms) : first <= j) =>
                /\ data[synonyms.column] = Str(CellValue(row, first))
                /\ \A j \in C17_Carrying(headers, row, synonyms) \ {first} :
                       /\ Trim(headers[j]) \in DOMAIN data.additionalData.v
                       /\ data.additionalData.v[Trim(headers[j])] = CellValue(row, j)

\* the file has data rows and a header for the BC number
C17_Parses(file) ==
    /\ Len(file.rows) >= 1
    /\ \E i \in 1..Len(file.headers) :
           ToLowerCase(Trim(file.headers[i])) \in caseLabels.identifier

\* C17: in every row that parseDataRows builds, a field named by several columns holds the value of the first column that carries one, and the value of each later such column is in additionalData under its header.
C17_FirstSynonymWins ==
    [][\A file \in ImportFiles :
          (parseDataRows(file.headers, file.rows) /\ C17_Parses(file)) =>
              \A k \in 1..Len(studentUpload'.parsedData) :
                  C17_FirstWins(file.headers,
                                file.rows[studentUpload'.parsedData[k].index - 1],
                                studentUpload'.parsedData[k].data)]_vars


\* C18: the file with headers "Bc No", "Name" and the row "A1", "Jane" parses to one valid row whose student_BC is "A1" and whose additionalData holds "Jane" under "Name".
C18_NameGoesToAdditionalData ==
    [][parseDataRows(<<<<"B", "c", " ", "N", "o">>, <<"N", "a", "m", "e">>>>, <<<<<<"A", "1">>, <<"J", "a", "n", "e">>>>>>) =>
          /\ Len(studentUpload'.parsedData) = 1
          /\ studentUpload'.parsedData[1].valid
          /\ studentUpload'.parsedData[1].data.student_BC = Str(<<"A", "1">>)
          /\ <<"N", "a", "m", "e">> \in DOMAIN studentUpload'.parsedData[1].data.additionalData.v
          /\ studentUpload'.parsedData[1].data.additionalData.v[<<"N", "a", "m", "e">>] = <<"J", "a", "n", "e">>]_vars


\* C18 as amended: that file parses to one valid row whose student_BC is "A1" and whose fullName is "Jane"; its additionalData holds the BC number under bcNo and nothing under "Name".
C18_NameIsFullName ==
    [][parseDataRows(<<<<"B", "c", " ", "N", "o">>, <<"N", "a", "m", "e">>>>, <<<<<<"A", "1">>, <<"J", "a", "n", "e">>>>>>) =>
          /\ Len(studentUpload'.parsedData) = 1
          /\ studentUpload'.parsedData[1].valid
          /\ studentUpload'.parsedData[1].data.student_BC = Str(<<"A", "1">>)
          /\ studentUpload'.parsedData[1].data.fullName = Str(<<"J", "a", "n", "e">>)
          /\ DOMAIN studentUpload'.parsedData[1].data.additionalData.v = {<<"b", "c", "N", "o">>}
          /\ studentUpload'.parsedData[1].data.additionalData.v[<<"b", "c", "N", "o">>] = <<"A", "1">>]_vars

C18_Witness ==
    /\ Len(studentUpload.parsedData) = 1
    /\ studentUpload.parsedData[1].valid
    /\ studentUpload.parsedData[1].data.student_BC = Str(<<"A", "1">>)
    /\ studentUpload.parsedData[1].data.fullName = Str(<<"J", "a", "n", "e">>)

\* the stored student old and the student new that a re-import of the parsed
\* row data leaves agree on what the row does not supply
C29_Kept(old, new, data) ==
    /\ \A c \in StudentColumns \ {"student_BC", "additionalData"} :
           data[c] = Undef => new[c] = old[c]
    /\ old.additionalData.t = "object" =>
           \A key \in DOMAIN old.additionalData.v :
               (data.additionalData = Undef \/ key \notin DOMAIN data.additionalData.v) =>
                   /\ new.additionalData.t = "object"
                   /\ key \in DOMAIN new.additionalData.v
                   /\ new.additionalData.v[key] = old.additionalData.v[key]

\* C29: an import through the dialog that commits a row for a stored student leaves every column the row does not supply, the status among them, and every additional-data entry the row does not supply as they were stored.
C29_ReimportKeepsUnsuppliedFields ==
    [][\A failing \in SUBSET (1..2) :
          handleUpload(failing) =>
              \A i \in (1..Len(studentUpload.parsedData)) \ failing :
                  \A old \in StoredWith(studentUpload.parsedData[i].data.student_BC.v) :
                      (\A j \in 1..Len(studentUpload.parsedData) :
                           studentUpload.parsedData[j].data.student_BC
                               = studentUpload.parsedData[i].data.student_BC => j = i)
                      => \A new \in {st \in students' : st.student_BC = old.student_BC} :
                             C29_Kept(old, new, studentUpload.parsedData[i].data)]_vars

(***************************************************************************)
(* CSV import                                                              *)
(***************************************************************************)
C15_HasValidRow == \E i \in 1..Len(csvUpload.parsedData) : csvUpload.parsedData[i].valid

C15_FormHasRoom ==
    (csvUpload.uploadType = "questions" /\ csvUpload.formId # Undef) =>
        Len(StoredQuestions(csvUpload.formId.v)) + Len(processedData(csvUpload))
            <= MaxCsvQuestions

\* C15: parsed input that holds a valid row can be imported, whether or not other rows of it are invalid.
C15_InvalidRowsDoNotBlockImport ==
    (C15_HasValidRow /\ C15_FormHasRoom) => ENABLED handleUploadCSV("alice")

\* C19: every stored question of type sls is required and has the four fixed options.
C19_SlsRequiredWithFixedOptions ==
    \A id \in FormIds :
        \A k \in 1..Len(StoredQuestions(id)) :
            StoredQuestions(id)[k].type = <<"s", "l", "s">> =>
                /\ StoredQuestions(id)[k].required
                /\ StoredQuestions(id)[k].options = Arr(slsOptions)

\* the scale cells that are the numbers 3, 5, 7 and 10
C20_Scales == {<<"3">>, <<"5">>, <<"7">>, <<"1", "0">>}

C20_ScaleAccepted(row) ==
    /\ ~Includes(row.errors, "Rating questions require a scale value")
    /\ ~Includes(row.errors, "Rating scale must be 3, 5, 7, or 10")

\* C20: validateRow accepts the scale of a rating row exactly when the cell is 3, 5, 7 or 10.
C20_ScaleIsOneOfFour ==
    \A k \in 1..Len(csvUpload.parsedData) :
        (/\ csvUpload.uploadType = "questions"
         /\ Field(csvUpload.parsedData[k].data, "question_type") = <<"r", "a", "t", "i", "n", "g">>) =>
            (C20_ScaleAccepted(csvUpload.parsedData[k])
                <=> Field(csvUpload.parsedData[k].data, "scale") \in C20_Scales)

(***************************************************************************)
(* Concurrent mutations                                                    *)
(***************************************************************************)
C21_BothDone ==
    inflight # Null /\ \A i \in 1..2 : inflight.calls[i].phase = "done"

\* the row that the two calls leave when call first runs whole, then the other
C21_Serial(first, second) ==
    Mutation(Mutation(inflight.initial, inflight.calls[first].call, now),
             inflight.calls[second].call, now)

\* C21: when two mutations of a form have both finished, the form is as if one had run whole after the other, in one of the two orders.
C21_ConcurrentMutationsSerializable ==
    C21_BothDone => forms["f1"] \in {C21_Serial(1, 2), C21_Serial(2, 1)}

(***************************************************************************)
(* The identity section of a parents survey                                *)
(***************************************************************************)
C22_IdentitySections(secs) ==
    {i \in 1..Len(secs) : secs[i].id.kind = "child-identity"}

\* the form type becomes parents_survey while there is no identity section
C22_BecomesParentsSurvey ==
    /\ formType # "parents_survey"
    /\ formType' = "parents_survey"
    /\ C22_IdentitySections(sections) = {}

\* C22: when the form type becomes parents_survey and there is no identity section, there is afterwards exactly one, first in the list with order -1; its only question is a required bcInput question, first in the question list and numbered 1, and what was there follows in its order.
C22_IdentitySectionCreatedOnce ==
    [][C22_BecomesParentsSurvey =>
          /\ C22_IdentitySections(sections') = {1}
          /\ sections'[1].order = -1
          /\ Len(SelectSeq(questions', LAMBDA q : q.sectionId = sections'[1].id)) = 1
          /\ questions'[1].sectionId = sections'[1].id
          /\ questions'[1].type = "bcInput"
          /\ questions'[1].required
          /\ questions'[1].questionNo = 1
          /\ \A i \in 2..Len(questions') : questions'[i].questionNo # 1
          /\ ~loading =>
                 /\ Tail(sections') = sections
                 /\ Len(questions') = Len(questions) + 1
                 /\ \A i \in 1..Len(questions) :
                        questions'[i + 1].questionId = questions[i].questionId]_vars

C22_Witness ==
    /\ formType = "parents_survey"
    /\ C22_IdentitySections(sections) = {1}
    /\ Len(sections) >= 2
    /\ Len(questions) >= 2
    /\ questions[1].type = "bcInput"
    /\ questions[1].questionNo = 1
    /\ questions[2].questionNo = 2

\* C30: a parents survey in the builder never has more than one identity section, nor more than one question injected with an identity section.
C30_AtMostOneIdentity ==
    formType = "parents_survey" =>
        /\ Cardinality(C22_IdentitySections(sections)) <= 1
        /\ Cardinality({i \in 1..Len(questions) :
                           questions[i].questionId.kind = "bc-input"}) <= 1

(***************************************************************************)
(* Drag and drop in the builder                                            *)
(***************************************************************************)
\* the section's questions after the drop of its question at index from at
\* its index to are in the order of the drop, numbered in that order
C27_Reordered(source, from, to) ==
    LET before == getQuestionsBySection(source)
        expected == InsertAt(RemoveAt(before, from), to, before[from + 1])
        after == SelectSeq(DroppedQuestions(source, from,
                                            [sectionId |-> source, index |-> to]),
                           LAMBDA q : InSection(q, source))
    IN  /\ Len(after) = Len(expected)
        /\ \A k \in 1..Len(expected) : after[k].questionId = expected[k].questionId
        /\ \A k \in 1..Len(after), l \in 1..Len(after) :
               k < l => after[k].questionNo < after[l].questionNo

\* C27: the drop of a question of a section at another position of the same section leaves it at that position, the section's other questions in their order, and the numbers in the new order.
C27_DragReordersWithinSection ==
    ~loading =>
        \A source \in SectionIds :
            \A from \in 0..(Len(getQuestionsBySection(source)) - 1),
               to \in 0..(Len(getQuestionsBySection(source)) - 1) :
                C27_Reordered(source, from, to)

(***************************************************************************)
(* The form's status and snapshots                                         *)
(***************************************************************************)
\* C23: a form whose status is active and that a step does not delete has the status active after the step.
C23_ActiveStaysActive ==
    [][\A id \in FormIds :
          (forms[id] # NoRow /\ forms[id].status = "active" /\ forms'[id] # NoRow)
              => forms'[id].status = "active"]_vars

C23_Witness ==
    \E id \in FormIds :
        /\ forms[id] # NoRow
        /\ forms[id].status = "active"
        /\ forms[id].lastPublishedAt # 0
        /\ forms[id].lastSavedAt > forms[id].lastPublishedAt

\* C24: a prepare-preview by the form's owner leaves the preview questions and sections equal to the working ones and lastSavedAt at the time of the request, and leaves the status, the working content, the published snapshot and every other column as they were.
C24_PreviewCopiesWorkingOnly ==
    [][\A u \in Users, id \in FormIds :
          (forms[id] # NoRow /\ IsOwner(forms[id], u) /\ PreparePreview(u, id)) =>
              /\ forms'[id].previewQuestions = forms[id].questions
              /\ forms'[id].previewSections = forms[id].sections
              /\ forms'[id].lastSavedAt = now
              /\ \A c \in DOMAIN forms[id] \ {"previewQuestions", "previewSections",
                                             "lastSavedAt"} :
                     forms'[id][c] = forms[id][c]]_vars

C24_Witness ==
    \E id \in FormIds :
        /\ forms[id] # NoRow
        /\ captured[id] # Undef
        /\ forms[id].status = "active"
        /\ forms[id].previewQuestions = Arr(<<"q1">>)
        /\ forms[id].previewQuestions = forms[id].questions
        /\ forms[id].publishedQuestions # forms[id].previewQuestions
        /\ forms[id].lastSavedAt = now

\* C26: the published snapshot of a stored form changes only in a step that is a publish by its owner, and its preview snapshot only in a step that is a prepare-preview by its owner; no save changes either.
C26_SnapshotsChangeOnlyByTheirOperation ==
    [][\A id \in FormIds :
          (forms[id] # NoRow /\ forms'[id] # NoRow) =>
              /\ ( \/ forms'[id].publishedQuestions # forms[id].publishedQuestions
                   \/ forms'[id].publishedSections # forms[id].publishedSections )
                 => \E u \in Users, b \in PublishBodies : OwnerPublish(u, id, b)
              /\ ( \/ forms'[id].previewQuestions # forms[id].previewQuestions
                   \/ forms'[id].previewSections # forms[id].previewSections )
                 => \E u \in Users : IsOwner(forms[id], u) /\ PreparePreview(u, id)]_vars

(***************************************************************************)
(* Form responses                                                          *)
(***************************************************************************)
\* the delete of the form by its owner that leaves no row for the form and
\* every response stored
C25_OwnerDeletes(id) ==
    /\ DeleteForm(forms[id].createdBy, id)
    /\ forms'[id] = NoRow
    /\ responses' = responses

\* C25: the owner of a stored form can delete it, with or without responses: the delete leaves no row for the form and leaves every stored response stored.
C25_DeleteRemovesFormKeepsResponses ==
    \A id \in FormIds : forms[id] # NoRow => ENABLED C25_OwnerDeletes(id)

====
